---- MODULE Spec2Model ----
(***************************************************************************)
(* Model of the value generators of stovokor-xml: the bank account number *)
(* generators of gen/bankaccounts.py (base generator, the Finnish,        *)
(* Norwegian, Italian and Swedish specialisations, the Swedish format     *)
(* mapper with its cached prefixes), the "num" generator of               *)
(* gen/generators.py and the Substitutor of xmlconversion.py.             *)
(*                                                                         *)
(* A Python str is a sequence of one-character strings; a character      *)
(* outside ASCII is written by its code point ("u0663").  An optional     *)
(* value (None or a str) is <<>> for None and <<s>> for the str s.        *)
(***************************************************************************)
EXTENDS Integers, Sequences, FiniteSets, TLC

(***************************************************************************)
(* Bounds of the model.                                                    *)
(***************************************************************************)
\* the random draws explored are the digit strings a, a+b, a+2b, ... (mod 10),
\* 0 <= b <= MaxStep
MaxStep == 1
\* calls made on one generator instance / one session
MaxCalls == 2
\* --min / --max of the "num" generator range over 0..MaxNum
MaxNum == 12
\* -l of the "num" generator ranges over 0..MaxLen
MaxLen == 2
\* the self-calls of the Norwegian generate_account_part are counted up to MaxRetries;
\* the capped count stands for every larger one, the one that reaches the interpreter's
\* recursion limit (sys.getrecursionlimit() = 1000, about 990 self-calls) included
MaxRetries == 2
\* an xpath finds up to MaxElems elements
MaxElems == 3

(***************************************************************************)
(* Characters and strings.                                                 *)
(***************************************************************************)
Digits == <<"0", "1", "2", "3", "4", "5", "6", "7", "8", "9">>

UpperLetters == <<"A", "B", "C", "D", "E", "F", "G", "H", "I", "J", "K", "L", "M",
                  "N", "O", "P", "Q", "R", "S", "T", "U", "V", "W", "X", "Y", "Z">>

LowerLetters == <<"a", "b", "c", "d", "e", "f", "g", "h", "i", "j", "k", "l", "m",
                  "n", "o", "p", "q", "r", "s", "t", "u", "v", "w", "x", "y", "z">>

\* the characters U+0660 .. U+0669 (ARABIC-INDIC DIGIT ZERO .. NINE), each written by
\* its code point: decimal digits outside ASCII, as \d matches and int() reads them
ArabicIndicDigits == <<"u0660", "u0661", "u0662", "u0663", "u0664",
                       "u0665", "u0666", "u0667", "u0668", "u0669">>

Range(s) == {s[i] : i \in 1..Len(s)}

\* string.digits
DigitSet == Range(Digits)

UpperSet == Range(UpperLetters)

LowerSet == Range(LowerLetters)

\* the characters the pattern \d of a str pattern matches: every decimal digit
IsDigit(c) == c \in DigitSet \cup Range(ArabicIndicDigits)

IsUpper(c) == c \in UpperSet

IsLower(c) == c \in LowerSet

IndexIn(alphabet, c) == CHOOSE i \in 1..Len(alphabet) : alphabet[i] = c

DigitValue ==
    [c \in DigitSet \cup Range(ArabicIndicDigits) |->
        IF c \in DigitSet THEN IndexIn(Digits, c) - 1 ELSE IndexIn(ArabicIndicDigits, c) - 1]

\* the position of an upper-case letter in the alphabet, 1..26
LetterIndex == [c \in UpperSet |-> IndexIn(UpperLetters, c)]

UpperOf == [c \in LowerSet |-> UpperLetters[IndexIn(LowerLetters, c)]]

\* int(c) for a decimal digit character
IntOfChar(c) == DigitValue[c]

\* str(d) for 0 <= d <= 9
CharOfInt(d) == Digits[d + 1]

\* the sequence a function on 1..n is
AsSeq(f) == f \o <<>>

\* the digit string of a tuple of digits: N(<<1, 2>>) is "12"
N(ds) == AsSeq([i \in 1..Len(ds) |-> CharOfInt(ds[i])])

AllDigits(s) == \A i \in 1..Len(s) : IsDigit(s[i])

\* Python slices s[a:b], s[:b], s[a:] with 0-based non-negative a, b
Slice(s, a, b) ==
    LET hi == IF b > Len(s) THEN Len(s) ELSE b
    IN IF a >= hi THEN <<>> ELSE SubSeq(s, a + 1, hi)

Take(s, b) == Slice(s, 0, b)

Drop(s, a) == Slice(s, a, Len(s))

\* s[:-k] for k > 0
DropLast(s, k) == IF k >= Len(s) THEN <<>> ELSE Take(s, Len(s) - k)

StartsWith(s, p) == Len(s) >= Len(p) /\ Take(s, Len(p)) = p

Min(a, b) == IF a <= b THEN a ELSE b

\* pow(10, n): an int for n >= 0, and for n < 0 the float 1 / 10^-n, held as the
\* fraction [num, den]
RECURSIVE Pow10(_)
Pow10(n) ==
    IF n = 0 THEN 1
    ELSE IF n > 0 THEN 10 * Pow10(n - 1)
    ELSE [num |-> 1, den |-> Pow10(-n)]

\* str(v) for an integer v >= 0
RECURSIVE StrOfNat(_)
StrOfNat(v) == IF v < 10 THEN <<CharOfInt(v)>> ELSE Append(StrOfNat(v \div 10), CharOfInt(v % 10))

\* str(v) for an integer v
StrOfInt(v) == IF v < 0 THEN <<"-">> \o StrOfNat(-v) ELSE StrOfNat(v)

\* int(s) for a string of decimal digits
RECURSIVE IntOfStr(_)
IntOfStr(s) ==
    IF s = <<>> THEN 0 ELSE 10 * IntOfStr(Take(s, Len(s) - 1)) + IntOfChar(s[Len(s)])

\* "0" * n
Zeros(n) == AsSeq([i \in 1..n |-> "0"])

\* str.zfill(width): the zeros go after a leading sign
ZFill(s, width) ==
    IF Len(s) >= width THEN s
    ELSE IF s # <<>> /\ s[1] \in {"+", "-"}
    THEN <<s[1]>> \o Zeros(width - Len(s)) \o Drop(s, 1)
    ELSE Zeros(width - Len(s)) \o s

\* str.rjust(width, '0')
RJust0(s, width) == IF Len(s) >= width THEN s ELSE Zeros(width - Len(s)) \o s

None == <<>>

Some(s) == <<s>>

\* Python truthiness of an optional str: None and '' are false
Truthy(opt) == opt # None /\ opt[1] # <<>>

(***************************************************************************)
(* The IBAN structural library (schwifty), at its boundary: parse,         *)
(* assemble, field lengths.  The registry holds the countries the          *)
(* generators name, and as countries without a dedicated generator DE and  *)
(* SM, whose BBAN has the Italian layout.                                  *)
(***************************************************************************)
CC_FI == <<"F", "I">>

CC_NO == <<"N", "O">>

CC_IT == <<"I", "T">>

CC_DK == <<"D", "K">>

CC_SE == <<"S", "E">>

CC_DE == <<"D", "E">>

CC_SM == <<"S", "M">>

RegistryCountries == {CC_FI, CC_NO, CC_IT, CC_DK, CC_SE, CC_DE, CC_SM}

\* registry.get('iban')[country]: the BBAN format as <<count, class>> runs
\* (n digits, a upper-case letters, c alphanumeric) and the field positions
IbanSpec(cc) ==
    CASE cc = CC_FI -> [format |-> << <<6, "n">>, <<7, "n">>, <<1, "n">> >>,
                        bank_code |-> <<0, 6>>, branch_code |-> <<6, 6>>, account_code |-> <<6, 14>>]
      [] cc = CC_NO -> [format |-> << <<4, "n">>, <<6, "n">>, <<1, "n">> >>,
                        bank_code |-> <<0, 4>>, branch_code |-> <<4, 4>>, account_code |-> <<4, 11>>]
      [] cc = CC_IT -> [format |-> << <<1, "a">>, <<5, "n">>, <<5, "n">>, <<12, "c">> >>,
                        bank_code |-> <<1, 6>>, branch_code |-> <<6, 11>>, account_code |-> <<11, 23>>]
      [] cc = CC_DK -> [format |-> << <<4, "n">>, <<9, "n">>, <<1, "n">> >>,
                        bank_code |-> <<0, 4>>, branch_code |-> <<4, 4>>, account_code |-> <<4, 14>>]
      [] cc = CC_SE -> [format |-> << <<3, "n">>, <<16, "n">>, <<1, "n">> >>,
                        bank_code |-> <<0, 3>>, branch_code |-> <<3, 3>>, account_code |-> <<3, 20>>]
      [] cc = CC_DE -> [format |-> << <<8, "n">>, <<10, "n">> >>,
                        bank_code |-> <<0, 8>>, branch_code |-> <<8, 8>>, account_code |-> <<8, 18>>]
      [] cc = CC_SM -> [format |-> << <<1, "a">>, <<5, "n">>, <<5, "n">>, <<12, "c">> >>,
                        bank_code |-> <<1, 6>>, branch_code |-> <<6, 11>>, account_code |-> <<11, 23>>]

RECURSIVE FormatLength(_)
FormatLength(format) ==
    IF format = <<>> THEN 0 ELSE format[1][1] + FormatLength(Tail(format))

\* the character class the format asks for at 1-based position i
RECURSIVE ClassAt(_, _)
ClassAt(format, i) ==
    IF i <= format[1][1] THEN format[1][2] ELSE ClassAt(Tail(format), i - format[1][1])

\* per registry country: the BBAN length and the class of each position
BbanClasses ==
    [cc \in RegistryCountries |->
        [i \in 1..FormatLength(IbanSpec(cc).format) |-> ClassAt(IbanSpec(cc).format, i)]]

InClass(c, class) ==
    CASE class = "n" -> IsDigit(c)
      [] class = "a" -> IsUpper(c)
      [] class = "c" -> c \in DigitSet \/ IsUpper(c) \/ IsLower(c)

\* schwifty.iban.code_length(spec, code_type)
code_length(spec, code_type) ==
    CASE code_type = "bank_code" -> spec.bank_code[2] - spec.bank_code[1]
      [] code_type = "branch_code" -> spec.branch_code[2] - spec.branch_code[1]
      [] code_type = "account_code" -> spec.account_code[2] - spec.account_code[1]

\* the characters the pattern \s matches
IsSpace(c) == c \in {" ", "\t", "\n", "\r", "\f"}

Upper(c) == IF IsLower(c) THEN UpperOf[c] ELSE c

\* clean(s): whitespace removed, upper-cased
Clean(s) == LET kept == SelectSeq(s, LAMBDA c : ~IsSpace(c))
            IN AsSeq([i \in 1..Len(kept) |-> Upper(kept[i])])

\* numerify(s) % 97, a digit standing for itself and a letter for 10..35
RECURSIVE Mod97From(_, _, _)
Mod97From(s, i, acc) ==
    IF i > Len(s) THEN acc
    ELSE IF IsDigit(s[i]) THEN Mod97From(s, i + 1, (acc * 10 + IntOfChar(s[i])) % 97)
    ELSE Mod97From(s, i + 1, (acc * 100 + LetterIndex[s[i]] + 9) % 97)

Mod97(s) == Mod97From(s, 1, 0)

AlphaNumeric(s) == \A i \in 1..Len(s) : IsDigit(s[i]) \/ IsUpper(s[i])

\* IBAN._calc_checksum_digits: the two ISO 7064 mod-97 check digits
CalcChecksumDigits(cc, bban) ==
    ZFill(StrOfNat(98 - ((Mod97(bban \o cc) * 100) % 97)), 2)

\* IBAN.validate on a compact code: known country, length, format, checksum
ValidCompact(code) ==
    LET cc == Take(code, 2)
        ck == Slice(code, 2, 4)
        bban == Drop(code, 4)
    IN /\ Len(code) >= 4
       /\ cc \in RegistryCountries
       /\ AllDigits(ck)
       /\ Len(bban) = Len(BbanClasses[cc])
       /\ \A i \in 1..Len(bban) : InClass(bban[i], BbanClasses[cc][i])
       /\ Mod97(bban \o cc \o ck) = 1

\* IBAN(s): [ok |-> TRUE, compact |-> the compact code], or ok = FALSE where the
\* library raises ValueError.  Check digits given as ?? are computed.
InvalidIban == [ok |-> FALSE, compact |-> <<>>]

IbanOfCompact(full) == IF ValidCompact(full) THEN [ok |-> TRUE, compact |-> full] ELSE InvalidIban

IbanOfClean(code) ==
    IF Slice(code, 2, 4) = <<"?", "?">> /\ AlphaNumeric(Drop(code, 4) \o Take(code, 2))
    THEN IbanOfCompact(Take(code, 2) \o CalcChecksumDigits(Take(code, 2), Drop(code, 4)) \o Drop(code, 4))
    ELSE IbanOfCompact(code)

IBAN(s) == IbanOfClean(Clean(s))

\* the components of a valid IBAN object
IbanCountryCode(iban) == Take(iban.compact, 2)

IbanBban(iban) == Drop(iban.compact, 4)

IbanBankCode(iban) ==
    LET pos == IbanSpec(IbanCountryCode(iban)).bank_code
    IN Slice(IbanBban(iban), pos[1], pos[2])

IbanBranchCode(iban) ==
    LET pos == IbanSpec(IbanCountryCode(iban)).branch_code
    IN Slice(IbanBban(iban), pos[1], pos[2])

IbanAccountCode(iban) ==
    LET pos == IbanSpec(IbanCountryCode(iban)).account_code
    IN Slice(IbanBban(iban), pos[1], pos[2])

\* IBAN.generate(country_code, bank_code, account_code): the codes right-justified
\* with zeros to the registry's lengths and assembled; ValueError when too long
IbanGenerateWith(cc, bank_code, account_code, bank_len, acc_len) ==
    IF Len(bank_code) > bank_len \/ Len(account_code) > acc_len THEN InvalidIban
    ELSE IBAN(cc \o <<"?", "?">> \o RJust0(bank_code, bank_len) \o RJust0(account_code, acc_len))

IbanGenerate(cc, bank_code, account_code) ==
    IF cc \notin RegistryCountries THEN InvalidIban
    ELSE IbanGenerateWith(cc, bank_code, account_code,
                          code_length(IbanSpec(cc), "bank_code") + code_length(IbanSpec(cc), "branch_code"),
                          code_length(IbanSpec(cc), "account_code"))

(***************************************************************************)
(* util/randomization.py                                                   *)
(***************************************************************************)
\* random.randint(a, b) of integers: the integers it can return (none: it raises
\* ValueError, the range is empty)
randint(a, b) == a..b

\* random_with_chars(length, allowed_chars): the values it can return, every string of
\* that many of the allowed characters (the empty string for a length below 1)
random_with_chars(length, allowed_chars) == [1..length -> allowed_chars]

\* random_numeric(length): the values it can return, every string of that many
\* decimal digits
random_numeric(length) == random_with_chars(length, DigitSet)

\* random_alpha_capitalized(length): the values it can return, the strings of that
\* many small letters with the first one capitalized
random_alpha_capitalized(length) ==
    { s \in random_with_chars(length, LowerSet \cup UpperSet) :
          \A i \in 1..Len(s) : IF i = 1 THEN IsUpper(s[i]) ELSE IsLower(s[i]) }

\* random_alpha_capitalized_varlength(min_len, max_len): the values it can return
random_alpha_capitalized_varlength(min_len, max_len) ==
    { s \in Seq(LowerSet \cup UpperSet) :
          Len(s) \in randint(min_len, max_len) /\ s \in random_alpha_capitalized(Len(s)) }

\* the draws of random_numeric(length) the model explores: the arithmetic digit
\* progressions with a step up to MaxStep
Draws(length) ==
    { d \in { AsSeq([i \in 1..length |-> CharOfInt((a + b * (i - 1)) % 10)]) :
                  a \in 0..9, b \in 0..MaxStep } :
          d \in random_numeric(length) }

(***************************************************************************)
(* gen/bankaccounts.py: the checksum algorithms                            *)
(***************************************************************************)
RECURSIVE SumSeq(_)
SumSeq(xs) == IF xs = <<>> THEN 0 ELSE xs[1] + SumSeq(Tail(xs))

\* digits_of(n): [int(d) for d in str(n)], for a str or an int
digits_of_str(str) == AsSeq([i \in 1..Len(str) |-> IntOfChar(str[i])])

digits_of_int(n) == digits_of_str(StrOfNat(n))

\* digits[-k::-2]: from the k-th digit from the right, every second one leftwards
BackwardEverySecond(digits, k) ==
    LET n == Len(digits)
        count == IF n < k THEN 0 ELSE ((n - k) \div 2) + 1
    IN AsSeq([j \in 1..count |-> digits[n - k + 1 - 2 * (j - 1)]])

\* the ten's complement of the checksum, the Luhn check digit of the textbooks
luhn_checksum_complement(card_number) ==
    LET digits == digits_of_str(card_number)
        odd_digits == BackwardEverySecond(digits, 1)
        even_digits == BackwardEverySecond(digits, 2)
        doubled == AsSeq([j \in 1..Len(even_digits) |-> SumSeq(digits_of_int(even_digits[j] * 2))])
    IN (10 - ((SumSeq(odd_digits) + SumSeq(doubled)) % 10)) % 10

luhn_checksum(card_number) ==
    LET digits == digits_of_str(card_number)
        odd_digits == BackwardEverySecond(digits, 1)
        even_digits == BackwardEverySecond(digits, 2)
        doubled == AsSeq([j \in 1..Len(even_digits) |-> SumSeq(digits_of_int(even_digits[j] * 2))])
    IN (SumSeq(odd_digits) + SumSeq(doubled)) % 10

KidWeights == <<2, 3, 4, 5, 6, 7>>

\* the weights cycling from the first character on, not from the last
kid_mod11_from_the_left(a) ==
    LET n == Len(a)
        cross == SumSeq(AsSeq([j \in 1..n |-> IntOfChar(a[j]) * KidWeights[((j - 1) % 6) + 1]]))
        mod == 11 - (cross % 11)
    IN IF mod # 11 THEN mod ELSE 0

kid_mod11(a) ==
    LET n == Len(a)
        \* enumerate(list(str(a))[::-1]): idx 0 is the last character
        cross == SumSeq(AsSeq([j \in 1..n |-> IntOfChar(a[n + 1 - j]) * KidWeights[((j - 1) % 6) + 1]]))
        mod == 11 - (cross % 11)
    IN IF mod # 11 THEN mod ELSE 0

CIN_ODD_VALUE == <<1, 0, 5, 7, 9, 13, 15, 17, 19, 21, 2, 4, 18, 20, 11, 3, 6, 8, 12, 14, 16,
                   10, 22, 25, 24, 23, 27, 28, 26>>

\* chr(65 + mod)
Chr65(mod) == UpperLetters[mod + 1]

\* cin with the two kinds of position exchanged: the table value at even positions
cin_parity_exchanged(code) ==
    LET total == SumSeq(AsSeq([i \in 1..Len(code) |->
                            IF (i - 1) % 2 = 1 THEN IntOfChar(code[i])
                            ELSE CIN_ODD_VALUE[IntOfChar(code[i]) + 1]]))
    IN Chr65(total % 26)

cin(code) ==
    LET total == SumSeq(AsSeq([i \in 1..Len(code) |->
                            IF (i - 1) % 2 = 0 THEN IntOfChar(code[i])
                            ELSE CIN_ODD_VALUE[IntOfChar(code[i]) + 1]]))
    IN Chr65(total % 26)

(***************************************************************************)
(* gen/bankaccounts.py: the generators.  An operation that draws random    *)
(* digits takes the draw as a parameter.  The outcome of an operation is   *)
(* [status, value]: status "ok" with the returned string, or the exception *)
(* that leaves the operation ("ValueError", "KeyError", "TypeError",       *)
(* "Exception", "SystemExit" where argparse ends the call, and             *)
(* "RecursionError" where the Norwegian generator has called itself until  *)
(* the interpreter's stack is used up), or "retry" where the Norwegian     *)
(* generator calls itself again.                                           *)
(***************************************************************************)
Outcome(status, value) == [status |-> status, value |-> value]

\* BankNrGenerator._get_account_code_length
get_account_code_length(country_code) == code_length(IbanSpec(country_code), "account_code")

\* BankNrGenerator._get_bank_code_length
get_bank_code_length(country_code) ==
    LET spec == IbanSpec(country_code)
        bank_code_length == code_length(spec, "bank_code")
        branch_code_length == code_length(spec, "branch_code")
    IN bank_code_length + branch_code_length

\* COUNTRY_GENERATORS / __get_country_generator: the class serving a country
GeneratorClass(country) ==
    CASE country = CC_FI -> "BankNrGeneratorFI"
      [] country = CC_NO -> "BankNrGeneratorNO"
      [] country = CC_SE -> "BankNrGeneratorSE"
      [] country = CC_IT -> "BankNrGeneratorIT"
      [] OTHER -> "BankNrGenerator"

\* the warnings flag the constructors set: only the default generator of a country
\* outside COUNTRY_GENERATORS warns
GeneratorWarnings(country) == country \notin {CC_FI, CC_NO, CC_SE, CC_DK, CC_IT}

\* the length of the one random_numeric draw of generate_account_part (0: it draws
\* nothing, the registry of the library has no entry for the country code)
AccountDrawLength(country_code) ==
    CASE GeneratorClass(country_code) = "BankNrGeneratorFI" -> 7
      [] GeneratorClass(country_code) = "BankNrGeneratorNO" -> 6
      [] country_code \notin RegistryCountries -> 0
      [] OTHER -> get_account_code_length(country_code)

\* BankNrGeneratorFI.generate_account_part
generate_account_part_FI(bank_code, random_part) ==
    Outcome("ok", random_part \o StrOfNat(luhn_checksum(bank_code \o random_part)))

\* generate_account_part without the test for 10
NO_account_part_no_retry(random_part, control_digit) ==
    Outcome("ok", random_part \o StrOfNat(control_digit))

\* BankNrGeneratorNO.generate_account_part from its test of control_digit on
NO_account_part(random_part, control_digit) ==
    IF control_digit = 10 THEN Outcome("retry", random_part)
    ELSE Outcome("ok", random_part \o StrOfNat(control_digit))

\* BankNrGeneratorNO.generate_account_part, one activation: control digit 10 asks
\* for another activation with a fresh draw
generate_account_part_NO(bank_code, random_part) ==
    NO_account_part(random_part, kid_mod11(bank_code \o random_part))

\* BankNrGenerator.generate_account_part: _get_account_code_length looks the country
\* code up in the registry of the library (KeyError: it has no entry, as for a country
\* code in small letters that IBAN() has accepted)
generate_account_part_base(country_code, draw) ==
    IF country_code \notin RegistryCountries THEN Outcome("KeyError", <<>>) ELSE Outcome("ok", draw)

\* generate_account_part of the generator of country_code
generate_account_part(country_code, bank_code, draw) ==
    CASE GeneratorClass(country_code) = "BankNrGeneratorFI" -> generate_account_part_FI(bank_code, draw)
      [] GeneratorClass(country_code) = "BankNrGeneratorNO" -> generate_account_part_NO(bank_code, draw)
      [] OTHER -> generate_account_part_base(country_code, draw)

\* the outcome of a library call: the compact code, or the exception that leaves
\* the caller where the library raises ValueError
OutcomeOfIban(iban, error) ==
    IF iban.ok THEN Outcome("ok", iban.compact) ELSE Outcome(error, <<>>)

\* BankNrGeneratorIT.generate_iban_for_bank: CIN + bank code + account number
generate_iban_for_bank_IT(bank_code, accnum) ==
    OutcomeOfIban(IBAN(<<"I", "T", "?", "?">> \o <<cin(accnum \o bank_code)>> \o bank_code \o accnum),
                  "ValueError")

\* generate_iban_for_bank handing out what it assembled, without the library's check
generate_iban_for_bank_base_unvalidated(country_code, bank_code, account_part) ==
    Outcome("ok", country_code \o CalcChecksumDigits(country_code, bank_code \o account_part)
                      \o bank_code \o account_part)

\* BankNrGenerator.generate_iban_for_bank
generate_iban_for_bank_base(country_code, bank_code, account_part) ==
    OutcomeOfIban(IbanGenerate(country_code, bank_code, account_part), "Exception")

\* generate_iban_for_bank from the account part on
generate_iban_for_bank_part(country_code, bank_code, part) ==
    IF part.status # "ok" THEN part
    ELSE IF GeneratorClass(country_code) = "BankNrGeneratorIT"
         THEN generate_iban_for_bank_IT(bank_code, part.value)
         ELSE generate_iban_for_bank_base(country_code, bank_code, part.value)

\* generate_iban_for_bank of the generator of country_code, given the draw of its
\* generate_account_part
generate_iban_for_bank(country_code, bank_code, draw) ==
    generate_iban_for_bank_part(country_code, bank_code,
                                generate_account_part(country_code, bank_code, draw))

\* BankNrGenerator.regenerate_iban
regenerate_iban_base(country_code, old_iban, draw) ==
    generate_iban_for_bank(country_code, IbanBankCode(old_iban) \o IbanBranchCode(old_iban), draw)

\* BankNrGenerator.bban_to_iban
bban_to_iban_base(country_code, bban) == IBAN(country_code \o <<"?", "?">> \o bban)

\* BankNrGenerator.iban_to_bban
iban_to_bban_base(iban) == IbanBban(iban)

(***************************************************************************)
(* gen/bankaccounts.py: BankNrGeneratorSE, the Swedish format mapper.      *)
(* A table entry is a regular expression ^lead(\d{g1})...(\d{gk})$, held   *)
(* as its literal lead and its group lengths, and a substitution template, *)
(* held as items: literal text followed by group grp (0: no group).        *)
(***************************************************************************)
STANDARD_BBAN_PART_LENGTH_SE == 20

Item(lit, grp) == [lit |-> lit, grp |-> grp]

Entry(lead, groups, template) == [lead |-> lead, groups |-> groups, template |-> template]

\* the national-to-IBAN table with one more zero in the Danske template
bban_to_iban_regex_ten_digit_prefix ==
    << Entry(N(<<1>>), <<3, 11>>, <<Item(N(<<1, 2, 0, 0, 0, 0, 0, 0, 0, 0>>), 2)>>),
       Entry(N(<<3>>), <<3, 11>>, <<Item(N(<<3, 0, 0, 0, 0, 0, 0, 0, 0>>), 2)>>),
       Entry(N(<<9, 2, 7>>), <<1, 7>>,
             <<Item(N(<<9, 2, 7, 0, 0, 0, 0, 0, 0, 9, 2, 7>>), 1), Item(<<>>, 2)>>),
       Entry(N(<<5>>), <<3, 7>>, <<Item(N(<<5, 0, 0, 0, 0, 0, 0, 0, 0, 5>>), 1), Item(<<>>, 2)>>),
       Entry(N(<<6>>), <<3, 9>>, <<Item(N(<<6, 0, 0, 0, 0, 0, 0, 0, 0, 0, 0>>), 2)>>),
       Entry(N(<<7>>), <<3, 7>>, <<Item(N(<<8, 0, 0, 0, 0, 0, 0, 0, 0, 7>>), 1), Item(<<>>, 2)>>),
       Entry(N(<<8>>), <<4, 10>>, <<Item(N(<<8, 0, 0, 0, 0, 8>>), 1), Item(<<>>, 2)>>),
       Entry(<<>>, <<9>>, <<Item(N(<<9, 5, 0, 0, 0, 0, 9, 9, 6, 0, 0, 0>>), 1)>>) >>

bban_to_iban_regex ==
    << \* Danske
       Entry(N(<<1>>), <<3, 11>>, <<Item(N(<<1, 2, 0, 0, 0, 0, 0, 0, 0>>), 2)>>),
       \* Nordea
       Entry(N(<<3>>), <<3, 11>>, <<Item(N(<<3, 0, 0, 0, 0, 0, 0, 0, 0>>), 2)>>),
       \* ICA
       Entry(N(<<9, 2, 7>>), <<1, 7>>,
             <<Item(N(<<9, 2, 7, 0, 0, 0, 0, 0, 0, 9, 2, 7>>), 1), Item(<<>>, 2)>>),
       \* SEB
       Entry(N(<<5>>), <<3, 7>>, <<Item(N(<<5, 0, 0, 0, 0, 0, 0, 0, 0, 5>>), 1), Item(<<>>, 2)>>),
       \* Handelsbanken
       Entry(N(<<6>>), <<3, 9>>, <<Item(N(<<6, 0, 0, 0, 0, 0, 0, 0, 0, 0, 0>>), 2)>>),
       \* Swedbank
       Entry(N(<<7>>), <<3, 7>>, <<Item(N(<<8, 0, 0, 0, 0, 0, 0, 0, 0, 7>>), 1), Item(<<>>, 2)>>),
       \* also Swedbank
       Entry(N(<<8>>), <<4, 10>>, <<Item(N(<<8, 0, 0, 0, 0, 8>>), 1), Item(<<>>, 2)>>),
       \* Plusgiro
       Entry(<<>>, <<9>>, <<Item(N(<<9, 5, 0, 0, 0, 0, 9, 9, 6, 0, 0, 0>>), 1)>>) >>

iban_to_bban_regex ==
    << \* Danske
       Entry(N(<<1, 2, 0, 0, 0, 0, 0, 0, 0>>), <<11>>, <<Item(<<"^">> \o N(<<1, 0, 0, 0>>), 1)>>),
       \* Nordea
       Entry(N(<<3, 0, 0, 0, 0, 0, 0, 0, 0>>), <<11>>, <<Item(<<"^">> \o N(<<3, 0, 0, 0>>), 1)>>),
       \* ICA
       Entry(N(<<9, 2, 7, 0, 0, 0, 0, 0, 0, 9, 2, 7>>), <<1, 7>>,
             <<Item(N(<<9, 2, 7>>), 1), Item(<<>>, 2)>>),
       \* SEB
       Entry(N(<<5, 0, 0, 0, 0, 0, 0, 0, 0, 5>>), <<3, 7>>, <<Item(N(<<5>>), 1), Item(<<>>, 2)>>),
       \* Handelsbanken
       Entry(N(<<6, 0, 0, 0, 0, 0, 0, 0, 0, 0, 0>>), <<9>>, <<Item(<<"^">> \o N(<<6, 0, 0, 0>>), 1)>>),
       \* Swedbank
       Entry(N(<<8, 0, 0, 0, 0, 0, 0, 0, 0, 7>>), <<3, 7>>, <<Item(N(<<7>>), 1), Item(<<>>, 2)>>),
       \* also Swedbank
       Entry(N(<<8, 0, 0, 0, 0, 8>>), <<4, 10>>, <<Item(N(<<8>>), 1), Item(<<>>, 2)>>),
       \* Plusgiro
       Entry(N(<<9, 5, 0, 0, 0, 0, 9, 9, 6, 0>>), <<2, 9>>, <<Item(<<>>, 2)>>) >>

\* re.match(regex, s): whether s is the lead followed by digits of the groups'
\* lengths; the closing $ matches at the end of s and before a newline that ends s
ReMatches(entry, s) ==
    LET length == Len(entry.lead) + SumSeq(entry.groups)
    IN /\ \/ Len(s) = length
          \/ Len(s) = length + 1 /\ s[Len(s)] = "\n"
       /\ Take(s, Len(entry.lead)) = entry.lead
       /\ AllDigits(Slice(s, Len(entry.lead), length))

\* match.groups(): the text of each group
MatchGroups(entry, s) ==
    AsSeq([k \in 1..Len(entry.groups) |->
        LET start == Len(entry.lead) + SumSeq(SubSeq(entry.groups, 1, k - 1))
        IN Slice(s, start, start + entry.groups[k])])

\* match.expand(template)
RECURSIVE ExpandItems(_, _)
ExpandItems(template, groups) ==
    IF template = <<>> THEN <<>>
    ELSE template[1].lit
         \o (IF template[1].grp > 0 THEN groups[template[1].grp] ELSE <<>>)
         \o ExpandItems(Tail(template), groups)

MatchExpand(entry, s) == ExpandItems(entry.template, MatchGroups(entry, s))

\* the first entry of the table, in its order, that matches s; 0 when none does
FirstMatch(table, s) ==
    IF \E k \in 1..Len(table) : ReMatches(table[k], s)
    THEN CHOOSE k \in 1..Len(table) :
            ReMatches(table[k], s) /\ \A j \in 1..(k - 1) : ~ReMatches(table[j], s)
    ELSE 0

\* the state of a BankNrGeneratorSE instance and the value a method returns
Inst(iban_prefix, bban_prefix) ==
    [special_bankcode_iban |-> iban_prefix, special_bankcode_bban |-> bban_prefix]

\* BankNrGeneratorSE.__init__
NewInst == Inst(None, None)

Ret(inst, value) == [inst |-> inst, value |-> value]

\* the prefixes cached on a match with bban[:accnum_len] for bban[:-accnum_len]
Discovered_head(bban, bban_as_iban_part, accnum_len) ==
    Inst(Some(Take(bban_as_iban_part, STANDARD_BBAN_PART_LENGTH_SE - accnum_len)),
         Some(Take(bban, accnum_len)))

\* the prefixes cached on a match: the national side is bban[:-accnum_len], the IBAN
\* side bban_as_iban_part[:20 - accnum_len]
Discovered(bban, bban_as_iban_part, accnum_len) ==
    Inst(Some(Take(bban_as_iban_part, STANDARD_BBAN_PART_LENGTH_SE - accnum_len)),
         Some(DropLast(bban, accnum_len)))

\* len(match.groups()[-1])
AccnumLen(entry) == entry.groups[Len(entry.groups)]

\* BankNrGeneratorSE.__bban_to_iban_part from its loop on: k is the first matching
\* entry of bban_to_iban_regex (0: none matches)
bban_to_iban_part_match(inst, bban, k) ==
    IF k = 0 THEN Ret(inst, bban)
    ELSE Ret(Discovered(bban, MatchExpand(bban_to_iban_regex[k], bban), AccnumLen(bban_to_iban_regex[k])),
             MatchExpand(bban_to_iban_regex[k], bban))

\* BankNrGeneratorSE.__bban_to_iban_part
bban_to_iban_part(inst, bban) ==
    IF Truthy(inst.special_bankcode_bban) /\ Truthy(inst.special_bankcode_iban)
    THEN \* Already calculated
         Ret(inst, inst.special_bankcode_iban[1] \o Drop(bban, Len(inst.special_bankcode_bban[1])))
    ELSE IF Len(bban) = STANDARD_BBAN_PART_LENGTH_SE
    THEN \* Standard bban, nothing special
         Ret(inst, bban)
    ELSE bban_to_iban_part_match(inst, bban, FirstMatch(bban_to_iban_regex, bban))

\* BankNrGeneratorSE.__iban_part_to_bban from its loop on: k is the first matching
\* entry of iban_to_bban_regex (0: none matches)
iban_part_to_bban_match(inst, bban_iban_part, k) ==
    IF k = 0 THEN Ret(inst, bban_iban_part)
    ELSE Ret(Discovered(MatchExpand(iban_to_bban_regex[k], bban_iban_part), bban_iban_part,
                        AccnumLen(iban_to_bban_regex[k])),
             MatchExpand(iban_to_bban_regex[k], bban_iban_part))

\* __iban_part_to_bban without the cached prefixes: the table is always consulted
iban_part_to_bban_uncached(inst, bban_iban_part) ==
    iban_part_to_bban_match(inst, bban_iban_part, FirstMatch(iban_to_bban_regex, bban_iban_part))

\* BankNrGeneratorSE.__iban_part_to_bban
iban_part_to_bban(inst, bban_iban_part) ==
    IF Truthy(inst.special_bankcode_bban) /\ Truthy(inst.special_bankcode_iban)
    THEN \* Already set
         Ret(inst, inst.special_bankcode_bban[1] \o Drop(bban_iban_part, Len(inst.special_bankcode_iban[1])))
    ELSE iban_part_to_bban_match(inst, bban_iban_part, FirstMatch(iban_to_bban_regex, bban_iban_part))

\* BankNrGeneratorSE.bban_to_iban: the part is computed (and the prefixes cached)
\* before the library validates it
bban_to_iban_SE_part(r) ==
    Ret(r.inst, OutcomeOfIban(bban_to_iban_base(CC_SE, r.value), "ValueError"))

bban_to_iban_SE(inst, bban) == bban_to_iban_SE_part(bban_to_iban_part(inst, bban))

\* BankNrGeneratorSE.iban_to_bban
iban_to_bban_SE(inst, iban) == iban_part_to_bban(inst, iban_to_bban_base(iban))

\* the length of the random_numeric draw of BankNrGeneratorSE.regenerate_iban on an
\* instance in state after (the state its discovery call leaves)
SE_draw_length(after) ==
    IF Truthy(after.special_bankcode_iban)
    THEN STANDARD_BBAN_PART_LENGTH_SE - Len(after.special_bankcode_iban[1])
    ELSE AccountDrawLength(CC_SE)

\* regenerate_iban without the bank-specific branch: always the standard handling
regenerate_iban_SE_after_always_standard(after, old_iban, draw) ==
    Ret(after, regenerate_iban_base(CC_SE, old_iban, draw))

\* BankNrGeneratorSE.regenerate_iban after its discovery call
regenerate_iban_SE_after(after, old_iban, draw) ==
    IF Truthy(after.special_bankcode_iban)
    THEN Ret(after, OutcomeOfIban(IBAN(<<"S", "E", "?", "?">> \o after.special_bankcode_iban[1] \o draw),
                                  "Exception"))
    ELSE Ret(after, regenerate_iban_base(CC_SE, old_iban, draw))

\* BankNrGeneratorSE.regenerate_iban
regenerate_iban_SE(inst, old_iban, draw) ==
    regenerate_iban_SE_after(iban_to_bban_SE(inst, old_iban).inst, old_iban, draw)

\* the methods of the generator of country_code, on the instance state inst (which
\* only BankNrGeneratorSE has and changes)
bban_to_iban(country_code, inst, bban) ==
    IF GeneratorClass(country_code) = "BankNrGeneratorSE" THEN bban_to_iban_SE(inst, bban)
    ELSE Ret(inst, OutcomeOfIban(bban_to_iban_base(country_code, bban), "ValueError"))

iban_to_bban(country_code, inst, iban) ==
    IF GeneratorClass(country_code) = "BankNrGeneratorSE" THEN iban_to_bban_SE(inst, iban)
    ELSE Ret(inst, iban_to_bban_base(iban))

\* the length of the random_numeric draw of regenerate_iban
regenerate_iban_draw_length(country_code, inst, old_iban) ==
    IF GeneratorClass(country_code) = "BankNrGeneratorSE"
    THEN SE_draw_length(iban_to_bban_SE(inst, old_iban).inst)
    ELSE AccountDrawLength(country_code)

regenerate_iban_method(country_code, inst, old_iban, draw) ==
    IF GeneratorClass(country_code) = "BankNrGeneratorSE" THEN regenerate_iban_SE(inst, old_iban, draw)
    ELSE Ret(inst, regenerate_iban_base(country_code, old_iban, draw))

\* the IBAN object of a compact code the library has produced
IbanOf(compact) == [ok |-> TRUE, compact |-> compact]

OkRet(b) == Ret(b.inst, Outcome("ok", b.value))

\* BankNrGenerator.regenerate_bban, its last step: r is what regenerate_iban returned
\* or raised; a returned IBAN is converted back
regenerate_bban_back(country_code, r) ==
    IF r.value.status # "ok" THEN r
    ELSE OkRet(iban_to_bban(country_code, r.inst, IbanOf(r.value.value)))

\* BankNrGenerator.regenerate_bban, after bban_to_iban has returned converted:
\* regenerate, then convert back
regenerate_bban_tail(country_code, inst, converted, draw) ==
    regenerate_bban_back(country_code, regenerate_iban_method(country_code, inst, IbanOf(converted), draw))

\* regenerate_bban without its except clause: the library's ValueError leaves it
regenerate_bban_converted_uncaught(country_code, old_bban, draw, c) ==
    IF c.value.status = "ValueError" THEN Ret(c.inst, Outcome("ValueError", <<>>))
    ELSE regenerate_bban_tail(country_code, c.inst, c.value.value, draw)

\* BankNrGenerator.regenerate_bban from the outcome c of bban_to_iban on
regenerate_bban_converted(country_code, old_bban, draw, c) ==
    IF c.value.status = "ValueError" THEN Ret(c.inst, Outcome("ok", old_bban))
    ELSE regenerate_bban_tail(country_code, c.inst, c.value.value, draw)

\* BankNrGenerator.regenerate_bban
regenerate_bban_method(country_code, inst, old_bban, draw) ==
    regenerate_bban_converted(country_code, old_bban, draw, bban_to_iban(country_code, inst, old_bban))

(***************************************************************************)
(* gen/generators.py: the "num" generator.  An argparse option that was    *)
(* not given is None.                                                      *)
(***************************************************************************)
\* Python truthiness of an optional int: None and 0 are false
TruthyInt(opt) == opt # None /\ opt[1] # 0

\* generate_num: which branch the arguments select
generate_num_branch(min, max, length) ==
    IF TruthyInt(min) /\ TruthyInt(max) THEN "range"
    ELSE IF TruthyInt(length) THEN "length"
    ELSE "invalid"

\* generate_num, range branch: max_val is no integer.  With a negative length
\* pow(10, length) - 1 is a float, above -1 for the lengths -16..-1 (from -17 on it is
\* -1.0), and min() returns it unless max <= -1
generate_num_max_fraction(max, length) ==
    TruthyInt(length) /\ length[1] \in (-16)..(-1) /\ max[1] > -1

\* generate_num, range branch: max_val, the upper bound handed to random.randint (the
\* float -1.0 is held as -1, which random.randint takes it for; from length 10 on
\* pow(10, length) - 1 is above every integer of the model)
generate_num_max_val(max, length) ==
    IF ~TruthyInt(length) THEN max[1]
    ELSE IF length[1] >= 10 THEN max[1]
    ELSE IF length[1] > 0 THEN Min(max[1], Pow10(length[1]) - 1)
    ELSE IF max[1] <= -1 THEN max[1]
    ELSE IF length[1] <= -17 THEN -1
    ELSE [num |-> Pow10(length[1]).num - Pow10(length[1]).den, den |-> Pow10(length[1]).den]

\* generate_num, range branch: random.randint raises ValueError, for a bound that is no
\* integer or for an empty range
generate_num_randint_raises(min, max, length) ==
    \/ generate_num_max_fraction(max, length)
    \/ randint(min[1], generate_num_max_val(max, length)) = {}

\* generate_num, range branch: the string returned when random.randint returns v
generate_num_format(v, length) ==
    IF TruthyInt(length) THEN ZFill(StrOfInt(v), length[1]) ELSE StrOfInt(v)

\* generate_num(args) raises before a random function has returned
generate_num_raises(min, max, length) ==
    \/ generate_num_branch(min, max, length) = "invalid"
    \/ generate_num_branch(min, max, length) = "range" /\ generate_num_randint_raises(min, max, length)

\* generate_num(args): what the random function it calls can return, the integer of
\* random.randint or the digits of random_numeric ({<<>>}: it returns nothing, the
\* call raises)
generate_num_random(min, max, length) ==
    CASE generate_num_branch(min, max, length) = "range" ->
            IF generate_num_randint_raises(min, max, length) THEN {<<>>}
            ELSE randint(min[1], generate_num_max_val(max, length))
      [] generate_num_branch(min, max, length) = "length" -> random_numeric(length[1])
      [] OTHER -> {<<>>}

\* generate_num(args), d being what the random function returns
generate_num_value(min, max, length, d) ==
    CASE generate_num_branch(min, max, length) = "range" ->
            IF generate_num_randint_raises(min, max, length)
            THEN Outcome("ValueError", <<>>)
            ELSE Outcome("ok", generate_num_format(d, length))
      [] generate_num_branch(min, max, length) = "length" -> Outcome("ok", d)
      [] OTHER -> Outcome("Exception", <<>>)

(***************************************************************************)
(* gen/generators.py: create_parser and parser.parse_args(arguments), with *)
(* the argparse library (Python 3.11) at its boundary.  A parser is held   *)
(* as the options that store a value and its positional argument; -h and   *)
(* --help, which argparse adds to every parser, are kept aside.  Whatever  *)
(* argparse answers with a message or the help text ends in SystemExit.    *)
(***************************************************************************)
P_const == <<"c", "o", "n", "s", "t">>

P_alphanum == <<"a", "l", "p", "h", "a", "n", "u", "m">>

P_num == <<"n", "u", "m">>

P_iban_regenerate == <<"i", "b", "a", "n", "_", "r", "e", "g", "e", "n", "e", "r", "a", "t", "e">>

P_iban_random == <<"i", "b", "a", "n", "_", "r", "a", "n", "d", "o", "m">>

P_bban_regenerate == <<"b", "b", "a", "n", "_", "r", "e", "g", "e", "n", "e", "r", "a", "t", "e">>

P_namelike == <<"n", "a", "m", "e", "l", "i", "k", "e">>

P_name_regenerate == <<"n", "a", "m", "e", "_", "r", "e", "g", "e", "n", "e", "r", "a", "t", "e">>

P_klingon == <<"k", "l", "i", "n", "g", "o", "n">>

P_l == <<"-", "l">>

P_min == <<"-", "-", "m", "i", "n">>

P_max == <<"-", "-", "m", "a", "x">>

P_c == <<"-", "c">>

P_h == <<"-", "h">>

P_help == <<"-", "-", "h", "e", "l", "p">>

\* "--": the strings after it are arguments, none an option
DoubleDash == <<"-", "-">>

\* the names add_parser registers
GeneratorNames ==
    {P_const, P_alphanum, P_num, P_iban_regenerate, P_iban_random, P_bban_regenerate,
     P_namelike, P_name_regenerate, P_klingon}

\* add_argument of an option: its option string, dest, type and whether it is required
Flag(option, dest, type, required) ==
    [option |-> option, dest |-> dest, type |-> type, required |-> required]

\* add_parser(name) with its add_argument calls: the options, and the dest of the
\* positional argument (None: it has none)
Parser(flags, positional) == [flags |-> flags, positional |-> positional]

\* create_parser: the subparser of each generator name
create_parser ==
    [gen_name \in GeneratorNames |->
        CASE gen_name = P_const -> Parser({}, Some("value"))
          [] gen_name = P_alphanum -> Parser({Flag(P_l, "length", "int", TRUE)}, None)
          [] gen_name = P_num -> Parser({Flag(P_l, "length", "int", FALSE),
                                         Flag(P_min, "min", "int", FALSE),
                                         Flag(P_max, "max", "int", FALSE)}, None)
          [] gen_name = P_iban_regenerate -> Parser({}, Some("old_iban"))
          [] gen_name = P_iban_random -> Parser({}, Some("country_code"))
          [] gen_name = P_bban_regenerate -> Parser({Flag(P_c, "country_code", "str", TRUE)},
                                                    Some("old_bban"))
          [] gen_name = P_namelike -> Parser({}, None)
          [] gen_name = P_name_regenerate -> Parser({}, Some("old_name"))
          [] gen_name = P_klingon -> Parser({}, None)]

\* the whitespace int() strips, the characters TLA+ cannot write by their code point
\* (str.isspace() without U+001C .. U+001F)
IntSpaces ==
    {" ", "\t", "\n", "\r", "\f", "u000b", "u0085", "u00a0", "u1680", "u2000", "u2001",
     "u2002", "u2003", "u2004", "u2005", "u2006", "u2007", "u2008", "u2009", "u200a",
     "u2028", "u2029", "u202f", "u205f", "u3000"}

RECURSIVE LStrip(_)
LStrip(s) == IF s # <<>> /\ s[1] \in IntSpaces THEN LStrip(Tail(s)) ELSE s

RECURSIVE RStrip(_)
RStrip(s) == IF s # <<>> /\ s[Len(s)] \in IntSpaces THEN RStrip(DropLast(s, 1)) ELSE s

\* the digits of an int literal: decimal digits, single underscores between them
IntLiteralBody(t) ==
    /\ t # <<>>
    /\ IsDigit(t[1])
    /\ IsDigit(t[Len(t)])
    /\ \A i \in 2..Len(t) : IsDigit(t[i]) \/ (t[i] = "_" /\ t[i - 1] # "_")

\* int(s) of a stripped str t: None where int() raises ValueError
IntOfStripped(t, signed) ==
    IF ~IntLiteralBody(IF signed THEN Tail(t) ELSE t) THEN None
    ELSE IF signed /\ t[1] = "-" THEN Some(-IntOfStr(SelectSeq(t, IsDigit)))
    ELSE Some(IntOfStr(SelectSeq(t, IsDigit)))

\* int(s), the type of -l, --min and --max: None where it raises ValueError
int(s) == IntOfStripped(LStrip(RStrip(s)), LStrip(RStrip(s)) # <<>> /\ LStrip(RStrip(s))[1] \in {"+", "-"})

\* the option strings of a parser
OptionStrings(parser) == {P_h, P_help} \cup { f.option : f \in parser.flags }

\* s.find(c) + 1: the place of the first c in s, 0 where there is none
RECURSIVE Find(_, _, _)
Find(s, c, i) == IF i > Len(s) THEN 0 ELSE IF s[i] = c THEN i ELSE Find(s, c, i + 1)

\* '^-\d+$|^-\d*\.\d+$' without the $ before a line break
NegativeNumberBody(t) ==
    /\ Len(t) >= 2
    /\ t[1] = "-"
    /\ \/ AllDigits(Drop(t, 1))
       \/ \E k \in 2..(Len(t) - 1) :
             t[k] = "." /\ AllDigits(Slice(t, 1, k - 1)) /\ AllDigits(Drop(t, k))

\* parser._negative_number_matcher.match(arg_string)
negative_number_matcher(arg_string) ==
    \/ NegativeNumberBody(arg_string)
    \/ arg_string # <<>> /\ arg_string[Len(arg_string)] = "\n"
          /\ NegativeNumberBody(DropLast(arg_string, 1))

\* what _parse_optional makes of an argument string: an argument ("A"), an option with
\* its option string and explicit argument ("O"; the option string <<>>: no option of
\* the parser), or the error of an ambiguous option
Argument == [kind |-> "A", option |-> <<>>, explicit_arg |-> None]

OptionTuple(option, explicit_arg) == [kind |-> "O", option |-> option, explicit_arg |-> explicit_arg]

AmbiguousOption == [kind |-> "error", option |-> <<>>, explicit_arg |-> None]

\* parser._get_option_tuples(option_string), eq being the place of its first "=": the
\* long options that begin with the part before "=", or the short option of its
\* first two characters with the rest as explicit argument
get_option_tuples(parser, option_string, eq) ==
    IF option_string[2] = "-"
    THEN { OptionTuple(o, IF eq = 0 THEN None ELSE Some(Drop(option_string, eq))) :
              o \in { o \in OptionStrings(parser) :
                         StartsWith(o, IF eq = 0 THEN option_string ELSE Take(option_string, eq - 1)) } }
    ELSE { OptionTuple(o, Some(Drop(option_string, 2))) :
              o \in { o \in OptionStrings(parser) : o = Take(option_string, 2) } }

\* _parse_optional from the abbreviations on
parse_optional_tuples(arg_string, option_tuples) ==
    IF Cardinality(option_tuples) > 1 THEN AmbiguousOption
    ELSE IF Cardinality(option_tuples) = 1 THEN CHOOSE t \in option_tuples : TRUE
    ELSE IF negative_number_matcher(arg_string) THEN Argument
    ELSE IF " " \in Range(arg_string) THEN Argument
    ELSE OptionTuple(<<>>, None)

\* parser._parse_optional(arg_string), eq being the place of its first "="
parse_optional_eq(parser, arg_string, eq) ==
    IF arg_string = <<>> \/ arg_string[1] # "-" THEN Argument
    ELSE IF arg_string \in OptionStrings(parser) THEN OptionTuple(arg_string, None)
    ELSE IF Len(arg_string) = 1 THEN Argument
    ELSE IF eq # 0 /\ Take(arg_string, eq - 1) \in OptionStrings(parser)
    THEN OptionTuple(Take(arg_string, eq - 1), Some(Drop(arg_string, eq)))
    ELSE parse_optional_tuples(arg_string, get_option_tuples(parser, arg_string, eq))

parse_optional(parser, arg_string) == parse_optional_eq(parser, arg_string, Find(arg_string, "=", 1))

\* the list [] that parser._get_values returns for the explicit argument "--" of an
\* option: neither None nor a value
EmptyList == <<0, 0>>

\* parser._get_values(action, [arg_string]) of an option: None where the type raises
\* ValueError
get_values(type, arg_string) ==
    IF arg_string = DoubleDash THEN EmptyList
    ELSE IF type = "int" THEN int(arg_string)
    ELSE Some(arg_string)

\* the outcome of parsing: the namespace, a function from the dests to their values
\* (None: not given), or SystemExit
Parsed(ns) == [ok |-> TRUE, ns |-> ns]

ParseExit == [ok |-> FALSE, ns |-> <<>>]

\* take_action(action, [arg_string]) of the option f
take_action_value(f, ns, value) ==
    IF value = None THEN ParseExit ELSE Parsed([ns EXCEPT ![f.dest] = value])

take_action(parser, ns, option, arg_string) ==
    take_action_value(CHOOSE f \in parser.flags : f.option = option, ns,
                      get_values((CHOOSE f \in parser.flags : f.option = option).type, arg_string))

\* the end of _parse_known_args: the required options and the positional must have
\* been seen
required_actions(parser, ns) ==
    IF /\ \A f \in parser.flags : f.required => ns[f.dest] # None
       /\ parser.positional # None => ns[parser.positional[1]] # None
    THEN Parsed(ns)
    ELSE ParseExit

RECURSIVE parse_known_args(_, _, _, _)
\* the loop goes on after an action, r being what it made of the namespace
parse_known_args_after(parser, arg_strings, start_index, r) ==
    IF r.ok THEN parse_known_args(parser, arg_strings, start_index, r.ns) ELSE ParseExit

\* consume_optional(start_index): -h and --help print the help and exit, a string that
\* is no option of the parser is left over; an option takes its explicit argument, or
\* else the next string, which must be an argument
consume_optional(parser, arg_strings, start_index, ns, option_tuple) ==
    IF option_tuple.option \notin { f.option : f \in parser.flags } THEN ParseExit
    ELSE IF option_tuple.explicit_arg # None
    THEN parse_known_args_after(parser, arg_strings, start_index + 1,
                                take_action(parser, ns, option_tuple.option, option_tuple.explicit_arg[1]))
    ELSE IF /\ start_index < Len(arg_strings)
            /\ arg_strings[start_index + 1] # DoubleDash
            /\ parse_optional(parser, arg_strings[start_index + 1]).kind = "A"
    THEN parse_known_args_after(parser, arg_strings, start_index + 2,
                                take_action(parser, ns, option_tuple.option, arg_strings[start_index + 1]))
    ELSE ParseExit

\* consume_positionals(start_index) at an argument: the positional takes it, and with
\* it a "--" that follows, after which no string may be left
consume_positionals(parser, arg_strings, start_index, ns) ==
    IF parser.positional = None \/ ns[parser.positional[1]] # None THEN ParseExit
    ELSE IF start_index < Len(arg_strings) /\ arg_strings[start_index + 1] = DoubleDash
    THEN IF start_index + 1 < Len(arg_strings) THEN ParseExit
         ELSE required_actions(parser, [ns EXCEPT ![parser.positional[1]] = Some(arg_strings[start_index])])
    ELSE parse_known_args(parser, arg_strings, start_index + 1,
                          [ns EXCEPT ![parser.positional[1]] = Some(arg_strings[start_index])])

\* consume_positionals(start_index) at "--": the positional takes the one string after it
consume_positionals_after_dashes(parser, arg_strings, start_index, ns) ==
    IF /\ parser.positional # None
       /\ ns[parser.positional[1]] = None
       /\ Len(arg_strings) = start_index + 1
    THEN required_actions(parser, [ns EXCEPT ![parser.positional[1]] = Some(arg_strings[start_index + 1])])
    ELSE ParseExit

\* parser._parse_known_args(arg_strings, namespace) of a subparser from start_index
\* on; a string left over is the error parse_args ends with
parse_known_args(parser, arg_strings, start_index, ns) ==
    IF start_index > Len(arg_strings) THEN required_actions(parser, ns)
    ELSE IF arg_strings[start_index] = DoubleDash
    THEN consume_positionals_after_dashes(parser, arg_strings, start_index, ns)
    ELSE IF parse_optional(parser, arg_strings[start_index]).kind = "A"
    THEN consume_positionals(parser, arg_strings, start_index, ns)
    ELSE IF parse_optional(parser, arg_strings[start_index]).kind = "error" THEN ParseExit
    ELSE consume_optional(parser, arg_strings, start_index, ns,
                          parse_optional(parser, arg_strings[start_index]))

\* the dests of a parser
Dests(parser) ==
    { f.dest : f \in parser.flags } \cup (IF parser.positional = None THEN {} ELSE {parser.positional[1]})

\* parser.parse_args(arguments): the first string must be a generator name, the rest
\* goes to its subparser; ok, gen_name and the namespace, or SystemExit
parse_args(arguments) ==
    IF arguments = <<>> \/ arguments[1] \notin GeneratorNames THEN ParseExit
    ELSE parse_known_args(create_parser[arguments[1]], Tail(arguments), 1,
                          [dest \in Dests(create_parser[arguments[1]]) |-> None])

(***************************************************************************)
(* gen/generators.py: the generators.  Each is held as the value           *)
(* func(args) returns or the exception it raises, given what the random    *)
(* functions return to it, and as the values they can return.              *)
(***************************************************************************)
\* generate_const(args)
generate_const_value(value) == Outcome("ok", value)

\* string.ascii_lowercase + string.ascii_uppercase + string.digits
AlphanumChars == LowerSet \cup UpperSet \cup DigitSet

\* generate_alphanum(args): what random_with_chars can return ({<<>>}: it is not
\* reached, range() of the list [] raises TypeError)
generate_alphanum_random(length) ==
    IF length = EmptyList THEN {<<>>} ELSE random_with_chars(length[1], AlphanumChars)

\* generate_alphanum(args), d being what random_with_chars returns
generate_alphanum_value(length, d) ==
    IF length = EmptyList THEN Outcome("TypeError", <<>>) ELSE Outcome("ok", d)

\* klingon(args): the quotes random.choice chooses from
KlingonQuotes ==
    <<<<"b", "a", "H">>,
      <<"G", "h", "o", "s">>,
      <<"g", "i", "k", "'", "t", "a", "l">>,
      <<"h", "e", "'", " ", "H", "I", "m", "a", "H">>,
      <<"M", "a", "h", "k", "-", "c", "h", "a">>,
      <<"Q", "a", "p", "l", "a", "'">>,
      <<"m", "a", "t", "l", "h", "!", " ", "j", "o", "l", " ", "y", "I", "c", "h", "u", "'">>,
      <<"t", "a", "H", " ", "p", "a", "g", "h", " ", "t", "a", "H", "b", "e", "'">>,
      <<"H", "e", "h", " ", "C", "h", "o", "'", "m", "r", "u", "a", "k", " ", "t", "a", "h">>>>

\* klingon(args), d being what random.choice returns
klingon_value(d) == Outcome("ok", d)

\* random_namelike(args), name and surname being what random_alpha_capitalized_varlength
\* returns
random_namelike_value(name, surname) == Outcome("ok", name \o <<" ">> \o surname)

\* s.split(sep) for a separator of one character, k being the place of the first sep
RECURSIVE Split(_, _, _)
Split(s, sep, k) ==
    IF k = 0 THEN <<s>>
    ELSE <<Take(s, k - 1)>> \o Split(Drop(s, k), sep, Find(Drop(s, k), sep, 1))

\* sep.join(parts)
RECURSIVE Join(_, _)
Join(parts, sep) ==
    IF parts = <<>> THEN <<>>
    ELSE IF Len(parts) = 1 THEN parts[1]
    ELSE parts[1] \o sep \o Join(Tail(parts), sep)

\* old_name.split(' ')
name_parts(old_name) == Split(old_name, " ", Find(old_name, " ", 1))

\* regenerate_name(args): parts is what the calls of random_alpha_capitalized can
\* return, one for each part of the old name
regenerate_name_random(old_name, parts) ==
    /\ Len(parts) = Len(name_parts(old_name))
    /\ \A k \in 1..Len(parts) : parts[k] \in random_alpha_capitalized(Len(name_parts(old_name)[k]))

\* regenerate_name(args), parts being what the calls of random_alpha_capitalized return
regenerate_name_value(old_name, parts) == Outcome("ok", Join(parts, <<" ">>))

BankAndBranch(iban) == IbanBankCode(iban) \o IbanBranchCode(iban)

\* the outcome r of generate_iban_for_bank after the self-calls of the Norwegian
\* generate_account_part, which draw ds[i], ds[i + 1], ...: with every draw rejected
\* they go on until RecursionError
RECURSIVE generate_iban_for_bank_retried(_, _, _, _)
generate_iban_for_bank_retried(bank_code, r, ds, i) ==
    IF r.status # "retry" THEN r
    ELSE IF i > Len(ds) THEN Outcome("RecursionError", <<>>)
    ELSE generate_iban_for_bank_retried(bank_code, generate_iban_for_bank(CC_NO, bank_code, ds[i]),
                                        ds, i + 1)

\* ds[i], ds[i + 1], ... are what random_numeric can return to generate_account_part of
\* the generator of country_code and to its self-calls: one draw of the given length,
\* and after a draw the Norwegian generator rejects another of six digits; a run of
\* rejected draws alone has MaxRetries self-calls and stands for the run that ends in
\* RecursionError
account_part_random(country_code, bank_code, length, ds, i) ==
    /\ i <= Len(ds)
    /\ Len(ds) - i <= MaxRetries
    /\ ds[i] \in random_numeric(length)
    /\ \A k \in (i + 1)..Len(ds) : ds[k] \in random_numeric(AccountDrawLength(CC_NO))
    /\ \A k \in i..(Len(ds) - 1) : generate_account_part(country_code, bank_code, ds[k]).status = "retry"
    /\ \/ generate_account_part(country_code, bank_code, ds[Len(ds)]).status # "retry"
       \/ Len(ds) - i = MaxRetries

\* bankaccounts.generate_random_iban(country): what random_numeric can return to it,
\* the bank code and then the draws of the account part (<<>>: it is not reached)
generate_random_iban_random(country, ds) ==
    IF Len(country) # 2 \/ country \notin RegistryCountries THEN ds = <<>>
    ELSE /\ ds # <<>>
         /\ ds[1] \in random_numeric(get_bank_code_length(country))
         /\ account_part_random(country, ds[1], AccountDrawLength(country), ds, 2)

\* bankaccounts.generate_random_iban(country), ds being what random_numeric returns to
\* it: __get_country_generator raises ValueError, the registry of the library has no
\* entry for the country (KeyError), or generate_iban generates
generate_random_iban_value(country, ds) ==
    IF Len(country) # 2 THEN Outcome("ValueError", <<>>)
    ELSE IF country \notin RegistryCountries THEN Outcome("KeyError", <<>>)
    ELSE generate_iban_for_bank_retried(ds[1], generate_iban_for_bank(country, ds[1], ds[2]), ds, 3)

\* bankaccounts.regenerate_iban(old_iban) on a new generator: what random_numeric can
\* return to it
regenerate_iban_random(old_iban, iban, ds) ==
    IF ~iban.ok THEN ds = <<>>
    ELSE account_part_random(IbanCountryCode(iban), BankAndBranch(iban),
                             regenerate_iban_draw_length(IbanCountryCode(iban), NewInst, iban), ds, 1)

\* bankaccounts.regenerate_iban(old_iban) on a new generator, iban being IBAN(old_iban)
\* and ds what random_numeric returns to it
regenerate_iban_value(old_iban, iban, ds) ==
    IF ~iban.ok THEN Outcome("ok", old_iban)
    ELSE generate_iban_for_bank_retried(
             BankAndBranch(iban),
             regenerate_iban_method(IbanCountryCode(iban), NewInst, iban, ds[1]).value, ds, 2)

\* bankaccounts.regenerate_bban(country_code, old_bban) on a new generator, c being
\* what its bban_to_iban made of old_bban: what random_numeric can return to it
regenerate_bban_random(country_code, c, ds) ==
    IF Len(country_code) # 2 \/ c.value.status = "ValueError" THEN ds = <<>>
    ELSE IF AccountDrawLength(country_code) = 0 THEN ds = <<>>
    ELSE account_part_random(country_code, BankAndBranch(IbanOf(c.value.value)),
                             regenerate_iban_draw_length(country_code, c.inst, IbanOf(c.value.value)),
                             ds, 1)

\* regenerate_bban once the retried generate_iban_for_bank has returned r: the IBAN is
\* converted back
regenerate_bban_retried(r) ==
    IF r.status = "ok" THEN Outcome("ok", iban_to_bban_base(IbanOf(r.value))) ELSE r

\* bankaccounts.regenerate_bban(country_code, old_bban) from the first draw on, r
\* being what the method makes of it
regenerate_bban_drawn(bank_code, r, ds) ==
    IF r.status # "retry" THEN r
    ELSE regenerate_bban_retried(generate_iban_for_bank_retried(bank_code, r, ds, 2))

\* bankaccounts.regenerate_bban(country_code, old_bban) on a new generator, c being
\* what its bban_to_iban made of old_bban and ds what random_numeric returns to it
regenerate_bban_value(country_code, old_bban, c, ds) ==
    IF Len(country_code) # 2 THEN Outcome("ValueError", <<>>)
    ELSE IF c.value.status = "ValueError" THEN Outcome("ok", old_bban)
    ELSE regenerate_bban_drawn(BankAndBranch(IbanOf(c.value.value)),
                               regenerate_bban_converted(country_code, old_bban,
                                                         IF ds = <<>> THEN <<>> ELSE ds[1], c).value,
                               ds)

\* len(args.country_code) for the value of -c: the list [] has no element
CountryCodeOf(country_code) == IF country_code = EmptyList THEN <<>> ELSE country_code[1]

\* what the random functions can return to args.func(args), in the order of the calls
func_random(gen_name, ns, d) ==
    CASE gen_name = P_const -> d = <<>>
      [] gen_name = P_alphanum ->
            IF ns.length = EmptyList THEN d = <<>>
            ELSE Len(d) = 1 /\ d[1] \in generate_alphanum_random(ns.length)
      [] gen_name = P_num ->
            IF generate_num_raises(ns.min, ns.max, ns.length) THEN d = <<>>
            ELSE Len(d) = 1 /\ d[1] \in generate_num_random(ns.min, ns.max, ns.length)
      [] gen_name = P_iban_regenerate -> regenerate_iban_random(ns.old_iban[1], IBAN(ns.old_iban[1]), d)
      [] gen_name = P_iban_random -> generate_random_iban_random(ns.country_code[1], d)
      [] gen_name = P_bban_regenerate ->
            regenerate_bban_random(CountryCodeOf(ns.country_code),
                                   IF Len(CountryCodeOf(ns.country_code)) # 2 THEN <<>>
                                   ELSE bban_to_iban(CountryCodeOf(ns.country_code), NewInst, ns.old_bban[1]),
                                   d)
      [] gen_name = P_namelike ->
            /\ Len(d) = 2
            /\ d[1] \in random_alpha_capitalized_varlength(5, 10)
            /\ d[2] \in random_alpha_capitalized_varlength(5, 10)
      [] gen_name = P_name_regenerate -> regenerate_name_random(ns.old_name[1], d)
      [] gen_name = P_klingon -> Len(d) = 1 /\ d[1] \in Range(KlingonQuotes)

\* args.func(args), d being what the random functions return to it
func(gen_name, ns, d) ==
    CASE gen_name = P_const -> generate_const_value(ns.value[1])
      [] gen_name = P_alphanum -> generate_alphanum_value(ns.length, IF d = <<>> THEN <<>> ELSE d[1])
      [] gen_name = P_num -> generate_num_value(ns.min, ns.max, ns.length, IF d = <<>> THEN <<>> ELSE d[1])
      [] gen_name = P_iban_regenerate -> regenerate_iban_value(ns.old_iban[1], IBAN(ns.old_iban[1]), d)
      [] gen_name = P_iban_random -> generate_random_iban_value(ns.country_code[1], d)
      [] gen_name = P_bban_regenerate ->
            regenerate_bban_value(CountryCodeOf(ns.country_code), ns.old_bban[1],
                                  IF Len(CountryCodeOf(ns.country_code)) # 2 THEN <<>>
                                  ELSE bban_to_iban(CountryCodeOf(ns.country_code), NewInst, ns.old_bban[1]),
                                  d)
      [] gen_name = P_namelike -> random_namelike_value(d[1], d[2])
      [] gen_name = P_name_regenerate -> regenerate_name_value(ns.old_name[1], d)
      [] gen_name = P_klingon -> klingon_value(d[1])

\* what the random functions can return to generators.generate(arguments), args being
\* what parse_args makes of the arguments: nothing where it ends in SystemExit
generate_random(arguments, args, d) ==
    IF ~args.ok THEN d = <<>> ELSE func_random(arguments[1], args.ns, d)

\* generators.generate(arguments) from parse_args on
generate_parsed(arguments, args, d) ==
    IF ~args.ok THEN Outcome("SystemExit", <<>>) ELSE func(arguments[1], args.ns, d)

\* generators.generate(arguments), d being what the random functions return to it, in
\* the order of the calls: its outcome
generate(arguments, d) == generate_parsed(arguments, parse_args(arguments), d)

(***************************************************************************)
(* The inputs of the model.                                                *)
(***************************************************************************)
\* a structurally valid IBAN of country cc with the given BBAN
ValidIban(cc, bban) == cc \o CalcChecksumDigits(cc, bban) \o bban

\* old BBANs per country: every drawn bank+branch code with a fixed old account,
\* after the check letter where the layout has one
OldBbans(cc) ==
    IF cc \in {CC_IT, CC_SM}
    THEN { <<"X">> \o bank \o Zeros(get_account_code_length(cc)) :
              bank \in Draws(get_bank_code_length(cc)) }
    ELSE { bank \o Zeros(get_account_code_length(cc)) :
              bank \in Draws(get_bank_code_length(cc)) }

\* the digit string filling the groups of a Swedish table entry: 2345...
GroupDigits(n) == { AsSeq([i \in 1..n |-> CharOfInt((1 + i) % 10)]) }

\* Swedish IBAN bodies in each bank-specific form of the inverse table
SpecialBodiesSE ==
    UNION { { iban_to_bban_regex[k].lead \o d : d \in GroupDigits(SumSeq(iban_to_bban_regex[k].groups)) } :
              k \in 1..Len(iban_to_bban_regex) }

\* Swedish national BBANs in each legacy form of the national-to-IBAN table
LegacyBbansSE ==
    UNION { { bban_to_iban_regex[k].lead \o d : d \in GroupDigits(SumSeq(bban_to_iban_regex[k].groups)) } :
              k \in 1..Len(bban_to_iban_regex) }

\* the body of SE35 5000 0000 0549 1000 0003: 20 digits, in the SEB form of the
\* inverse table
StandardBodySE == N(<<5, 0, 0, 0, 0, 0, 0, 0, 0, 5, 4, 9, 1, 0, 0, 0, 0, 0, 0, 3>>)

\* a 20-digit body in no form of the inverse table
PlainBodySE == N(<<2, 0, 0, 0, 0, 0, 0, 0, 0, 5, 4, 9, 1, 0, 0, 0, 0, 0, 0, 3>>)

\* "5000 0000 0549 1000 0003": the standard body as printed, in groups of four
SpacedBodySE ==
    N(<<5, 0, 0, 0>>) \o <<" ">> \o N(<<0, 0, 0, 0>>) \o <<" ">> \o N(<<0, 5, 4, 9>>) \o <<" ">>
        \o N(<<1, 0, 0, 0>>) \o <<" ">> \o N(<<0, 0, 0, 3>>)

NotABban == <<"n", "o", "t", "-", "a", "-", "b", "b", "a", "n">>

\* strings that are no Swedish BBAN of any form
MalformedBbans == {NotABban, <<>>, N(<<2, 2, 2, 2, 2, 2, 2, 2, 2, 2>>), <<"1">> \o Zeros(13) \o <<"x">>}

CC_XX == <<"X", "X">>

\* "FI2112345600000785"
ExampleIbanFI == <<"F", "I">> \o N(<<2, 1, 1, 2, 3, 4, 5, 6, 0, 0, 0, 0, 0, 7, 8, 5>>)

\* "SM86U0322509800000000270100"
ExampleIbanSM ==
    <<"S", "M", "8", "6", "U">> \o N(<<0, 3, 2, 2, 5, 0, 9, 8, 0, 0, 0, 0, 0, 0, 0, 0, 2, 7, 0, 1, 0, 0>>)

\* "123456789012345": the Danske legacy BBAN "1234" + "56789012345"
ExampleBbanDanske == N(<<1, 2, 3, 4, 5, 6, 7, 8, 9, 0, 1, 2, 3, 4, 5>>)

\* national BBANs as a text node that ends with a line break holds them: the Danske
\* legacy BBAN and a 20-digit body
NewlineBbansSE == { ExampleBbanDanske \o <<"\n">>, PlainBodySE \o <<"\n">> }

\* the Danske legacy BBAN with decimal digits outside ASCII, in the bank part and in
\* the account part
UnicodeDigitBbansSE ==
    { <<"1", "u0662", "u0663", "u0664">> \o N(<<5, 6, 7, 8, 9, 0, 1, 2, 3, 4, 5>>),
      N(<<1, 2, 3, 4>>) \o <<"u0665">> \o N(<<6, 7, 8, 9, 0, 1, 2, 3, 4, 5>>) }

\* the old_iban strings handed to regenerate_iban
IbanInputs ==
    UNION { { ValidIban(cc, b) : b \in OldBbans(cc) } : cc \in RegistryCountries }
    \cup { ValidIban(CC_SE, b) : b \in SpecialBodiesSE \cup {StandardBodySE, PlainBodySE} }
    \cup { \* accepted by the library: printed form, lower case, check digits to compute
           ExampleIbanFI, ExampleIbanSM, ExampleIbanFI \o <<"\n">>,
           <<"F", "I", "2", "1", "u0661">> \o N(<<2, 3, 4, 5, 6, 0, 0, 0, 0, 0, 7, 8, 5>>),
           <<"s", "e", "3", "5", " ">> \o SpacedBodySE,
           <<"S", "E", "?", "?">> \o StandardBodySE }
    \cup { \* rejected by the library
           <<>>, <<"S", "E">>, NotABban,
           <<"S", "E", "3", "6">> \o StandardBodySE,
           <<"S", "E", "3", "5">> \o Take(StandardBodySE, 19),
           <<"X", "X", "3", "5">> \o StandardBodySE,
           <<"F", "I", "2", "2">> \o N(<<1, 2, 3, 4, 5, 6, 0, 0, 0, 0, 0, 7, 8, 5>>) }

\* the (country_code, old_bban) pairs handed to regenerate_bban; "fi" is a country code
\* the library accepts in an IBAN and its registry does not hold
BbanInputs ==
    UNION { { <<cc, b>> : b \in OldBbans(cc) \cup {NotABban} } : cc \in {CC_FI, CC_NO, CC_IT, CC_DK, CC_DE, CC_SM} }
    \cup { <<CC_SE, b>> : b \in LegacyBbansSE \cup SpecialBodiesSE \cup MalformedBbans
                                  \cup NewlineBbansSE \cup UnicodeDigitBbansSE
                                  \cup {StandardBodySE, PlainBodySE, SpacedBodySE} }
    \cup { <<CC_XX, StandardBodySE>>, <<<<"S", "W", "E">>, StandardBodySE>> }
    \cup { <<<<"f", "i">>, b>> : b \in OldBbans(CC_FI) \cup {NotABban} }

\* the values of an int option of "num": not given, or an integer from -MaxLen to n
OptInts(n) == {None} \cup { <<i>> : i \in (-MaxLen)..n }

\* the country codes handed to generate_random_iban: those of the registry, one
\* outside it, one in small letters and one of three letters
RandomIbanCountries == RegistryCountries \cup {CC_XX, <<"n", "o">>, <<"S", "W", "E">>}

\* the values handed to generate_const: "foo", "" and "-h"
ConstValues == {<<"f", "o", "o">>, <<>>, <<"-", "h">>}

\* the values of -l handed to generate_alphanum
AlphanumLengths == { <<i>> : i \in (-1)..MaxLen } \cup {EmptyList}

\* the names handed to regenerate_name: "", "Ab cd  e" and "Very Secret Name"
OldNames == {<<>>, <<"A", "b", " ", "c", "d", " ", " ", "e">>,
             <<"V", "e", "r", "y", " ", "S", "e", "c", "r", "e", "t", " ", "N", "a", "m", "e">>}

\* the explored strings of random_with_chars(length, ...): one character repeated
ConstantDraws(length, chars) == { AsSeq([i \in 1..length |-> c]) : c \in chars }

\* the explored strings of random_alpha_capitalized(length): A or Z and its small
\* letter repeated
CapitalizedDraws(length) ==
    { AsSeq([i \in 1..length |-> IF i = 1 THEN UpperLetters[k] ELSE LowerLetters[k]]) : k \in {1, 26} }

\* the explored draws of generate_alphanum
AlphanumDraws(length) ==
    IF length = EmptyList THEN {<<>>} ELSE ConstantDraws(length[1], {"a", "Z", "0"})

\* the explored names of random_namelike
NamelikeDraws == UNION { CapitalizedDraws(length) : length \in randint(5, 10) }

\* the explored draws of regenerate_name: every part from the same letter
NameDraws(parts) ==
    { AsSeq([i \in 1..Len(parts) |->
                AsSeq([j \in 1..Len(parts[i]) |-> IF j = 1 THEN UpperLetters[k] ELSE LowerLetters[k]])]) :
          k \in {1, 26} }

(***************************************************************************)
(* State.                                                                  *)
(***************************************************************************)
VARIABLES
    pc,          \* "start": no call made yet; "retry": inside the Norwegian
                 \* generate_account_part, about to draw again; "returned": the last
                 \* call has returned or raised
    calls,       \* the number of calls made
    generator,   \* the country code of the generator the last call selected (None: none)
    inst_before, \* the BankNrGeneratorSE instance state before the last call
    inst,        \* the BankNrGeneratorSE instance state
    op,          \* the operation last called ("" when none)
    arg,         \* its string argument
    num_args,    \* the arguments of the last "num" call: <<min, max, length>>
    draw,        \* the last random_numeric draw of the call (<<>>: nothing drawn)
    bank_code,   \* the bank_code of the running generate_iban_for_bank
    retries,     \* how often the Norwegian generate_account_part has called itself in
                 \* the last call, counted up to MaxRetries (MaxRetries: that often or
                 \* more, up to the interpreter's recursion limit)
    out          \* the outcome of the last call

\* xmlconversion.py: one Substitutor at work on the elements an xpath found
VARIABLES
    sub_pc,      \* "idle": no Substitutor; "loop": in the loop over the found elements;
                 \* "raised": an exception of the generator has ended the conversion
    sd,          \* Substitutor.sd: [policy, gen_value], gen_value already split()
    cache,       \* Substitutor.cache: a function from element texts to generated values
    orig,        \* the texts of the found elements as they were found
    texts,       \* elem.text of the found elements now
    idx,         \* the number of elements substitute_next has been called on
    gen_log      \* the calls of generators.generate made: <<elem.text, outcome>> each

genVars == <<pc, calls, generator, inst_before, inst, op, arg, num_args, draw, bank_code,
             retries, out>>

substVars == <<sub_pc, sd, cache, orig, texts, idx, gen_log>>

vars == <<genVars, substVars>>

NoNumArgs == <<None, None, None>>

\* no Substitutor exists
NoSubstitutor ==
    /\ sub_pc = "idle"
    /\ sd = [policy |-> "ALWAYS", gen_value |-> <<>>]
    /\ cache = <<>>
    /\ orig = <<>>
    /\ texts = <<>>
    /\ idx = 0
    /\ gen_log = <<>>

\* a call begins: bookkeeping common to all operations
Called(name, argument) ==
    /\ calls' = calls + 1
    /\ op' = name
    /\ arg' = argument
    /\ inst_before' = inst
    /\ retries' = 0
    /\ UNCHANGED substVars

\* a call ends with outcome o, having last drawn d, or enters the Norwegian retry
Finish(o, d, bank) ==
    /\ draw' = d
    /\ out' = o
    /\ pc' = IF o.status = "retry" THEN "retry" ELSE "returned"
    /\ bank_code' = IF o.status = "retry" THEN bank ELSE <<>>

(***************************************************************************)
(* One run of generators.py: generate(sys.argv[1:]) makes one call.        *)
(***************************************************************************)
Init ==
    /\ pc = "start"
    /\ calls = 0
    /\ generator = None
    /\ inst_before = NewInst
    /\ inst = NewInst
    /\ op = ""
    /\ arg = <<>>
    /\ num_args = NoNumArgs
    /\ draw = <<>>
    /\ bank_code = <<>>
    /\ retries = 0
    /\ out = Outcome("none", <<>>)
    /\ NoSubstitutor

\* a call ends with what the method returned: the instance state and the outcome
FinishWith(r, d, bank) == inst' = r.inst /\ Finish(r.value, d, bank)

\* the end of a step of generate_random_iban: the bank code generate_iban has drawn is
\* no part of the arguments and stays at hand
FinishDrawn(o, d, bank) ==
    /\ draw' = d
    /\ out' = o
    /\ pc' = IF o.status = "retry" THEN "retry" ELSE "returned"
    /\ bank_code' = bank

\* regenerate_iban without its except clause: the library's ValueError leaves it
regenerate_iban_parsed_uncaught(old_iban, iban, d) ==
    IF ~iban.ok
    THEN /\ d = <<>>
         /\ generator' = None
         /\ inst' = inst
         /\ Finish(Outcome("ValueError", <<>>), <<>>, <<>>)
    ELSE /\ d \in random_numeric(regenerate_iban_draw_length(IbanCountryCode(iban), NewInst, iban))
         /\ generator' = Some(IbanCountryCode(iban))
         /\ FinishWith(regenerate_iban_method(IbanCountryCode(iban), NewInst, iban, d), d,
                       BankAndBranch(iban))

\* bankaccounts.regenerate_iban from the parsed old IBAN on, on a new generator; d is
\* what random_numeric returns to the call (<<>> where it is not called)
regenerate_iban_parsed(old_iban, iban, d) ==
    IF ~iban.ok
    THEN \* Old IBAN is invalid, leaving it unmodified
         /\ d = <<>>
         /\ generator' = None
         /\ inst' = inst
         /\ Finish(Outcome("ok", old_iban), <<>>, <<>>)
    ELSE /\ d \in random_numeric(regenerate_iban_draw_length(IbanCountryCode(iban), NewInst, iban))
         /\ generator' = Some(IbanCountryCode(iban))
         /\ FinishWith(regenerate_iban_method(IbanCountryCode(iban), NewInst, iban, d), d,
                       BankAndBranch(iban))

\* bankaccounts.regenerate_iban(old_iban), the "iban_regenerate" generator, drawing d
regenerate_iban(old_iban, d) ==
    /\ pc = "start"
    /\ Called("regenerate_iban", old_iban)
    /\ num_args' = NoNumArgs
    /\ regenerate_iban_parsed(old_iban, IBAN(old_iban), d)

\* BankNrGenerator.regenerate_bban from the outcome c of bban_to_iban on; d is what
\* random_numeric returns to the call (<<>> where it is not called)
regenerate_bban_from(country_code, old_bban, c, d) ==
    IF c.value.status = "ValueError"
    THEN \* Old BBAN is invalid, leaving it unmodified
         /\ d = <<>>
         /\ FinishWith(regenerate_bban_converted(country_code, old_bban, <<>>, c), <<>>, <<>>)
    ELSE /\ d \in random_numeric(regenerate_iban_draw_length(country_code, c.inst, IbanOf(c.value.value)))
         /\ FinishWith(regenerate_bban_converted(country_code, old_bban, d, c), d,
                       BankAndBranch(IbanOf(c.value.value)))

\* bankaccounts.regenerate_bban(country_code, old_bban), the "bban_regenerate"
\* generator, on a new generator, drawing d
regenerate_bban(country_code, old_bban, d) ==
    /\ pc = "start"
    /\ Called("regenerate_bban", old_bban)
    /\ num_args' = NoNumArgs
    /\ IF Len(country_code) # 2
       THEN \* __get_country_generator: Country code must have 2 letters
            /\ d = <<>>
            /\ generator' = None
            /\ inst' = inst
            /\ Finish(Outcome("ValueError", <<>>), <<>>, <<>>)
       ELSE /\ generator' = Some(country_code)
            /\ regenerate_bban_from(country_code, old_bban, bban_to_iban(country_code, NewInst, old_bban), d)

\* the rest of the call once the retried generate_iban_for_bank has returned r
retry_returns(r, d) ==
    IF r.status = "ok" /\ op = "regenerate_bban"
    THEN Finish(Outcome("ok", iban_to_bban_base(IbanOf(r.value))), d, bank_code)
    ELSE IF op = "generate_random_iban" THEN FinishDrawn(r, d, bank_code)
    ELSE Finish(r, d, bank_code)

\* BankNrGeneratorNO.generate_account_part calling itself after a control digit 10.
\* Either the nested call runs: a fresh draw d for the same bank code, and on success
\* the rest of the call.  Or, every call so far having been rejected and the calls
\* nested as deep as the interpreter allows (possible once the count is capped), the
\* nested call raises RecursionError: nothing is drawn (d = <<>>), and the error, which
\* is no ValueError, passes the except clause of generate_iban_for_bank and leaves
\* regenerate_iban / regenerate_bban
generate_account_part_retry(d) ==
    /\ pc = "retry"
    /\ UNCHANGED <<calls, generator, inst_before, inst, op, arg, num_args>>
    /\ UNCHANGED substVars
    /\ \/ /\ d \in random_numeric(AccountDrawLength(CC_NO))
          /\ retries' = Min(retries + 1, MaxRetries)
          /\ retry_returns(generate_iban_for_bank(CC_NO, bank_code, d), d)
       \/ /\ d = <<>>
          /\ retries = MaxRetries
          /\ retries' = retries
          /\ retry_returns(Outcome("RecursionError", <<>>), draw)

\* generators.generate_num(args), the "num" generator; d is what the random function
\* it calls returns: the integer of random.randint, the digits of random_numeric
\* (<<>> where nothing is returned)
generate_num(min, max, length, d) ==
    /\ pc = "start"
    /\ Called("generate_num", <<>>)
    /\ num_args' = <<min, max, length>>
    /\ UNCHANGED <<generator, inst>>
    /\ d \in generate_num_random(min, max, length)
    /\ Finish(generate_num_value(min, max, length, d),
              IF generate_num_branch(min, max, length) = "length" THEN d ELSE <<>>, <<>>)

\* bankaccounts.generate_random_iban(country), the "iban_random" generator;
\* random_numeric returns bank to generate_iban and d to generate_account_part (<<>>
\* where it is not called)
generate_random_iban(country, bank, d) ==
    /\ pc = "start"
    /\ Called("generate_random_iban", country)
    /\ num_args' = NoNumArgs
    /\ inst' = inst
    /\ IF Len(country) # 2 \/ country \notin RegistryCountries
       THEN \* __get_country_generator: Country code must have 2 letters; or the registry
            \* of the library has no entry for the country
            /\ bank = <<>>
            /\ d = <<>>
            /\ generator' = IF Len(country) # 2 THEN None ELSE Some(country)
            /\ Finish(generate_random_iban_value(country, <<>>), <<>>, <<>>)
       ELSE /\ bank \in random_numeric(get_bank_code_length(country))
            /\ d \in random_numeric(AccountDrawLength(country))
            /\ generator' = Some(country)
            /\ FinishDrawn(generate_iban_for_bank(country, bank, d), d, bank)

\* generators.generate_const(args), the "const" generator
generate_const(value) ==
    /\ pc = "start"
    /\ Called("generate_const", value)
    /\ num_args' = NoNumArgs
    /\ UNCHANGED <<generator, inst>>
    /\ Finish(generate_const_value(value), <<>>, <<>>)

\* generators.generate_alphanum(args), the "alphanum" generator; d is what
\* random_with_chars returns (<<>> where it is not reached)
generate_alphanum(length, d) ==
    /\ pc = "start"
    /\ Called("generate_alphanum", <<>>)
    /\ num_args' = <<None, None, length>>
    /\ UNCHANGED <<generator, inst>>
    /\ d \in generate_alphanum_random(length)
    /\ Finish(generate_alphanum_value(length, d), <<>>, <<>>)

\* generators.random_namelike(args), the "namelike" generator; name and surname are
\* what random_alpha_capitalized_varlength returns
random_namelike(name, surname) ==
    /\ pc = "start"
    /\ Called("random_namelike", <<>>)
    /\ num_args' = NoNumArgs
    /\ UNCHANGED <<generator, inst>>
    /\ name \in random_alpha_capitalized_varlength(5, 10)
    /\ surname \in random_alpha_capitalized_varlength(5, 10)
    /\ Finish(random_namelike_value(name, surname), <<>>, <<>>)

\* generators.regenerate_name(args), the "name_regenerate" generator; parts is what the
\* calls of random_alpha_capitalized return
regenerate_name(old_name, parts) ==
    /\ pc = "start"
    /\ Called("regenerate_name", old_name)
    /\ num_args' = NoNumArgs
    /\ UNCHANGED <<generator, inst>>
    /\ regenerate_name_random(old_name, parts)
    /\ Finish(regenerate_name_value(old_name, parts), <<>>, <<>>)

\* generators.klingon(args), the "klingon" generator; d is what random.choice returns
klingon(d) ==
    /\ pc = "start"
    /\ Called("klingon", <<>>)
    /\ num_args' = NoNumArgs
    /\ UNCHANGED <<generator, inst>>
    /\ d \in Range(KlingonQuotes)
    /\ Finish(klingon_value(d), <<>>, <<>>)

\* the explored draws of random_numeric(length) whose first digit is among firsts
DrawsFrom(length, firsts) == { d \in Draws(length) : d = <<>> \/ d[1] \in firsts }

\* the draws explored for generate_random_iban(country): bank codes that begin with 0
\* or 5, and the account draws
RandomIbanDraws(country) ==
    IF Len(country) # 2 \/ country \notin RegistryCountries THEN {<<<<>>, <<>>>>}
    ELSE DrawsFrom(get_bank_code_length(country), {"0", "5"}) \X Draws(AccountDrawLength(country))

\* the draws explored for regenerate_iban(old_iban) on a new generator
IbanDraws(old_iban, iban) ==
    IF ~iban.ok THEN {<<>>}
    ELSE Draws(regenerate_iban_draw_length(IbanCountryCode(iban), NewInst, iban))

\* the draws explored for regenerate_bban of the generator of country_code, c being
\* the outcome of its bban_to_iban: those beginning with one of firsts
BbanDraws(country_code, c, firsts) ==
    IF c.value.status = "ValueError" THEN {<<>>}
    ELSE DrawsFrom(regenerate_iban_draw_length(country_code, c.inst, IbanOf(c.value.value)), firsts)

Next ==
    \/ /\ pc = "start"
       /\ \E old_iban \in IbanInputs :
             \E d \in IbanDraws(old_iban, IBAN(old_iban)) : regenerate_iban(old_iban, d)
    \/ /\ pc = "start"
       /\ \E input \in BbanInputs :
             \E d \in (IF Len(input[1]) # 2 THEN {<<>>}
                        ELSE BbanDraws(input[1], bban_to_iban(input[1], NewInst, input[2]), DigitSet)) :
                regenerate_bban(input[1], input[2], d)
    \/ /\ pc = "start"
       /\ \E min \in OptInts(MaxNum), max \in OptInts(MaxNum), length \in OptInts(MaxLen) :
             \E d \in (IF generate_num_branch(min, max, length) = "length" THEN Draws(length[1])
                        ELSE generate_num_random(min, max, length)) :
                generate_num(min, max, length, d)
    \/ /\ pc = "start"
       /\ \E country \in RandomIbanCountries :
             \E ds \in RandomIbanDraws(country) : generate_random_iban(country, ds[1], ds[2])
    \/ /\ pc = "start"
       /\ \E value \in ConstValues : generate_const(value)
    \/ /\ pc = "start"
       /\ \E length \in AlphanumLengths :
             \E d \in AlphanumDraws(length) : generate_alphanum(length, d)
    \/ /\ pc = "start"
       /\ \E name \in NamelikeDraws, surname \in NamelikeDraws : random_namelike(name, surname)
    \/ /\ pc = "start"
       /\ \E old_name \in OldNames :
             \E parts \in NameDraws(name_parts(old_name)) : regenerate_name(old_name, parts)
    \/ /\ pc = "start"
       /\ \E d \in Range(KlingonQuotes) : klingon(d)
    \/ \E d \in Draws(AccountDrawLength(CC_NO)) \cup {<<>>} : generate_account_part_retry(d)

Spec == Init /\ [][Next]_vars

\* the step of a retried generate_account_part whose draw has a control digit other
\* than 10: the activation returns
retry_with_accepted_draw ==
    /\ pc = "retry"
    /\ \E d \in Draws(AccountDrawLength(CC_NO)) :
          /\ d \in random_numeric(AccountDrawLength(CC_NO))
          /\ kid_mod11(bank_code \o d) # 10
          /\ draw' = d
          /\ pc' = "returned"

\* one call of the Norwegian generator
NextNO ==
    \/ /\ pc = "start"
       /\ \E old_bban \in OldBbans(CC_NO), d \in Draws(AccountDrawLength(CC_NO)) :
             regenerate_iban(ValidIban(CC_NO, old_bban), d)
    \/ /\ pc = "start"
       /\ \E old_bban \in OldBbans(CC_NO), d \in Draws(AccountDrawLength(CC_NO)) :
             regenerate_bban(CC_NO, old_bban, d)
    \/ \E d \in Draws(AccountDrawLength(CC_NO)) \cup {<<>>} : generate_account_part_retry(d)

\* one call of the Norwegian generator under a fair random source: the retries do not
\* go on for ever, a draw whose control digit is not 10 comes up at last unless the
\* nested calls have ended in RecursionError before
SpecNO == Init /\ [][NextNO]_vars /\ WF_pc(retry_with_accepted_draw)

(***************************************************************************)
(* One BankNrGeneratorSE instance and the calls made on it: the cached     *)
(* prefixes live as long as the instance.                                  *)
(***************************************************************************)
InitSE ==
    /\ pc = "start"
    /\ calls = 0
    /\ generator = Some(CC_SE)
    /\ inst_before = NewInst
    /\ inst = NewInst
    /\ op = ""
    /\ arg = <<>>
    /\ num_args = NoNumArgs
    /\ draw = <<>>
    /\ bank_code = <<>>
    /\ retries = 0
    /\ out = Outcome("none", <<>>)
    /\ NoSubstitutor

\* the national BBAN strings handed to the instance
BbanArgsSE ==
    LegacyBbansSE \cup MalformedBbans \cup NewlineBbansSE \cup UnicodeDigitBbansSE
        \cup {StandardBodySE, PlainBodySE, SpacedBodySE}

\* the IBAN objects handed to the instance: valid Swedish IBANs, among them the one
\* the last call returned
OldIbansSE ==
    { ValidIban(CC_SE, b) :
          b \in { x \in SpecialBodiesSE : Len(x) = STANDARD_BBAN_PART_LENGTH_SE }
                    \cup {StandardBodySE, PlainBodySE} }

IbanArgsSE ==
    OldIbansSE
    \cup (IF op \in {"bban_to_iban", "regenerate_iban"} /\ out.status = "ok" THEN {out.value} ELSE {})

\* the draws explored on the instance: those that begin with 9
DrawsSE(length) == DrawsFrom(length, {"9"})

MethodCall(name, argument) ==
    /\ pc # "retry"
    /\ calls < MaxCalls
    /\ Called(name, argument)
    /\ UNCHANGED <<generator, num_args>>

\* BankNrGeneratorSE.bban_to_iban(bban)
SE_bban_to_iban(bban) ==
    /\ MethodCall("bban_to_iban", bban)
    /\ FinishWith(bban_to_iban_SE(inst, bban), <<>>, <<>>)

\* BankNrGeneratorSE.iban_to_bban(iban)
SE_iban_to_bban(iban) ==
    /\ MethodCall("iban_to_bban", iban)
    /\ FinishWith(OkRet(iban_to_bban_SE(inst, IbanOf(iban))), <<>>, <<>>)

\* BankNrGeneratorSE.regenerate_iban(old_iban), drawing d
SE_regenerate_iban(old_iban, d) ==
    /\ MethodCall("regenerate_iban", old_iban)
    /\ d \in random_numeric(regenerate_iban_draw_length(CC_SE, inst, IbanOf(old_iban)))
    /\ FinishWith(regenerate_iban_SE(inst, IbanOf(old_iban), d), d, <<>>)

\* BankNrGeneratorSE.regenerate_bban(old_bban), inherited from BankNrGenerator; d is
\* what random_numeric returns to the call (<<>> where it is not called)
SE_regenerate_bban(old_bban, d) ==
    /\ MethodCall("regenerate_bban", old_bban)
    /\ regenerate_bban_from(CC_SE, old_bban, bban_to_iban(CC_SE, inst, old_bban), d)

NextSE ==
    \/ \E bban \in BbanArgsSE : SE_bban_to_iban(bban)
    \/ \E iban \in IbanArgsSE : SE_iban_to_bban(iban)
    \/ \E iban \in IbanArgsSE :
          \E d \in DrawsSE(regenerate_iban_draw_length(CC_SE, inst, IbanOf(iban))) :
             SE_regenerate_iban(iban, d)
    \/ \E bban \in BbanArgsSE :
          \E d \in BbanDraws(CC_SE, bban_to_iban(CC_SE, inst, bban), {"9"}) :
             SE_regenerate_bban(bban, d)

SpecSE == InitSE /\ [][NextSE]_vars

(***************************************************************************)
(* xmlconversion.py: the Substitutor of one xpath and the loop of          *)
(* __convert_xml over the elements found.  A generator expression is held  *)
(* as its parameters (gen_value.split()), each a str.                      *)
(***************************************************************************)
\* conf.SubstGenPolicy
SubstGenPolicy == {"ALWAYS", "CACHED"}

P_text == <<"#", "t", "e", "x", "t">>

P_len == <<"#", "l", "e", "n">>

\* xmlconversion._escape_special_params(elem, gen_param), text being elem.text
escape_special_params(text, gen_param) ==
    IF gen_param = P_text THEN text
    ELSE IF gen_param = P_len THEN StrOfNat(Len(text))
    ELSE IF StartsWith(gen_param, <<"#", "#">>) THEN Drop(gen_param, 1)
    ELSE gen_param

\* list(map(lambda par: _escape_special_params(elem, par), gen_params))
final_gen_params(text, gen_params) ==
    AsSeq([i \in 1..Len(gen_params) |-> escape_special_params(text, gen_params[i])])

\* the draws explored for a Substitutor: those beginning with 0 or 1
DrawsSubst(length) == DrawsFrom(length, {"0", "1"})

\* self.cache[key] = value
CachePut(c, key, value) ==
    [t \in (DOMAIN c) \cup {key} |-> IF t = key THEN value ELSE c[t]]

\* get_next caching under the generated value instead of the element's text
get_next_keyed_by_value(s, c, text, g) ==
    IF s.policy = "CACHED" /\ text \in DOMAIN c
    THEN [cache |-> c, value |-> Outcome("ok", c[text]), generated |-> FALSE]
    ELSE IF g.status # "ok"
    THEN [cache |-> c, value |-> g, generated |-> TRUE]
    ELSE [cache |-> CachePut(c, g.value, g.value), value |-> g, generated |-> TRUE]

\* Substitutor.get_next(elem), text being elem.text and g the outcome generators.generate
\* has if it is called: the cache left, the value returned or the exception raised,
\* and whether the generator was called
get_next(s, c, text, g) ==
    IF s.policy = "CACHED" /\ text \in DOMAIN c
    THEN [cache |-> c, value |-> Outcome("ok", c[text]), generated |-> FALSE]
    ELSE IF g.status # "ok"
    THEN [cache |-> c, value |-> g, generated |-> TRUE]
    ELSE [cache |-> CachePut(c, text, g.value), value |-> g, generated |-> TRUE]

\* Substitutor.substitute_next(elem) for the next element, r being what get_next did
substitute_with(r) ==
    /\ cache' = r.cache
    /\ idx' = idx + 1
    /\ gen_log' = IF r.generated THEN Append(gen_log, <<texts[idx + 1], r.value>>) ELSE gen_log
    /\ IF r.value.status = "ok"
       THEN /\ texts' = [texts EXCEPT ![idx + 1] = r.value.value]
            /\ sub_pc' = "loop"
       ELSE /\ texts' = texts
            /\ sub_pc' = "raised"
    /\ UNCHANGED <<sd, orig>>

\* get_next(elem) answers from the cache
get_next_cached(s, c, text) == s.policy = "CACHED" /\ text \in DOMAIN c

\* substitute_next for the final parameters of the next element, d being what the
\* random functions return to the generator (<<>> where it is not called)
substitute_drawing(arguments, d) ==
    /\ IF get_next_cached(sd, cache, texts[idx + 1]) THEN d = <<>>
       ELSE generate_random(arguments, parse_args(arguments), d)
    /\ substitute_with(get_next(sd, cache, texts[idx + 1], generate(arguments, d)))

\* one turn of the loop of __convert_xml: substitutor.substitute_next(elem), the
\* random functions returning d to the generator
substitute_next(d) ==
    /\ sub_pc = "loop"
    /\ idx < Len(texts)
    /\ UNCHANGED genVars
    /\ substitute_drawing(final_gen_params(texts[idx + 1], sd.gen_value), d)

\* the generator expressions of the model: "const #text", "const ##", "num -l #len",
\* "num", "num --min 1 --max #len"
GenValues ==
    { <<P_const, P_text>>, <<P_const, <<"#", "#">>>>, <<P_num, P_l, P_len>>, <<P_num>>,
      <<P_num, P_min, <<"1">>, P_max, P_len>> }

\* the texts of the elements an xpath finds
ElemTexts == { <<"1">>, <<"0">>, <<"1", "1">>, <<"-", "h">> }

FoundElements == UNION { [1..n -> ElemTexts] : n \in 1..MaxElems }

\* Substitutor(subst_def), and found_elements = xml.xpath(xpath)
InitSub ==
    /\ pc = "start"
    /\ calls = 0
    /\ generator = None
    /\ inst_before = NewInst
    /\ inst = NewInst
    /\ op = ""
    /\ arg = <<>>
    /\ num_args = NoNumArgs
    /\ draw = <<>>
    /\ bank_code = <<>>
    /\ retries = 0
    /\ out = Outcome("none", <<>>)
    /\ sub_pc = "loop"
    /\ sd \in [policy : SubstGenPolicy, gen_value : GenValues]
    /\ cache = <<>>
    /\ orig \in FoundElements
    /\ texts = orig
    /\ idx = 0
    /\ gen_log = <<>>

\* the draws of the account part explored for a Substitutor: a first draw of the
\* given length and the draws of the self-calls of the Norwegian generator
AccountDrawsSubst(length) ==
    { <<d>> \o ds : d \in DrawsSubst(length),
                    ds \in UNION { [1..n -> DrawsSubst(AccountDrawLength(CC_NO))] : n \in 0..MaxRetries } }

\* the values of the random functions explored for args.func(args); substitute_next
\* takes those among them that the random functions can return to the call
func_draws(gen_name, ns) ==
    CASE gen_name = P_const -> {<<>>}
      [] gen_name = P_alphanum -> { <<s>> : s \in AlphanumDraws(ns.length) }
      [] gen_name = P_num ->
            IF generate_num_raises(ns.min, ns.max, ns.length) THEN {<<>>}
            ELSE IF generate_num_branch(ns.min, ns.max, ns.length) = "length"
            THEN { <<s>> : s \in DrawsSubst(ns.length[1]) }
            ELSE { <<v>> : v \in generate_num_random(ns.min, ns.max, ns.length) }
      [] gen_name = P_iban_regenerate ->
            IF ~IBAN(ns.old_iban[1]).ok THEN {<<>>}
            ELSE AccountDrawsSubst(regenerate_iban_draw_length(IbanCountryCode(IBAN(ns.old_iban[1])),
                                                               NewInst, IBAN(ns.old_iban[1])))
      [] gen_name = P_iban_random ->
            IF Len(ns.country_code[1]) # 2 \/ ns.country_code[1] \notin RegistryCountries THEN {<<>>}
            ELSE { <<bank>> \o ds :
                      bank \in DrawsSubst(get_bank_code_length(ns.country_code[1])),
                      ds \in AccountDrawsSubst(AccountDrawLength(ns.country_code[1])) }
      [] gen_name = P_bban_regenerate ->
            IF Len(CountryCodeOf(ns.country_code)) # 2 THEN {<<>>}
            ELSE IF bban_to_iban(CountryCodeOf(ns.country_code), NewInst, ns.old_bban[1]).value.status = "ValueError"
            THEN {<<>>}
            ELSE AccountDrawsSubst(regenerate_iban_draw_length(
                     CountryCodeOf(ns.country_code),
                     bban_to_iban(CountryCodeOf(ns.country_code), NewInst, ns.old_bban[1]).inst,
                     IbanOf(bban_to_iban(CountryCodeOf(ns.country_code), NewInst, ns.old_bban[1]).value.value)))
      [] gen_name = P_namelike -> NamelikeDraws \X NamelikeDraws
      [] gen_name = P_name_regenerate -> NameDraws(name_parts(ns.old_name[1]))
      [] gen_name = P_klingon -> { <<q>> : q \in Range(KlingonQuotes) }

\* the values explored for generators.generate(arguments), args being what parse_args
\* makes of the arguments
generate_draws(arguments, args) ==
    IF ~args.ok THEN {<<>>} ELSE func_draws(arguments[1], args.ns)

\* the draws explored for the next element
SubstDraws ==
    IF sub_pc = "loop" /\ idx < Len(texts)
    THEN {<<>>} \cup generate_draws(final_gen_params(texts[idx + 1], sd.gen_value),
                                    parse_args(final_gen_params(texts[idx + 1], sd.gen_value)))
    ELSE {<<>>}

NextSub == \E d \in SubstDraws : substitute_next(d)

SpecSub == InitSub /\ [][NextSub]_vars

(***************************************************************************)
(* Properties.                                                             *)
(***************************************************************************)
\* the last call has returned or raised
Returned == pc = "returned"

\* the BBAN of the identifier the last call returned: regenerate_iban and
\* generate_random_iban return an IBAN, regenerate_bban a BBAN
OutBban == IF op = "regenerate_bban" THEN out.value ELSE Drop(out.value, 4)

\* the last call went through a generation step (it drew the digits of an account
\* part)
Generated ==
    Returned /\ draw # <<>> /\ op \in {"regenerate_iban", "regenerate_bban", "generate_random_iban"}

\* regenerate_bban was called with a country code that has a generator, and has ended
RegeneratedBban == Returned /\ op = "regenerate_bban" /\ generator # None

\* the outcome of converting the old BBAN of the call, on the new generator
OldBbanConverted == bban_to_iban(generator[1], NewInst, arg).value

\* the bank + branch code the call generates for: that of the identifier the old one
\* was parsed to, or the one generate_iban has drawn
OldBankAndBranch ==
    IF op = "generate_random_iban" THEN bank_code
    ELSE IF op = "regenerate_iban" THEN BankAndBranch(IBAN(arg))
    ELSE BankAndBranch(IbanOf(OldBbanConverted.value))

\* C1: for every structurally valid old IBAN of any country (Swedish bank-specific
\* bodies included), regenerate_iban returns a valid IBAN with the old country code
\* and the old bank code + branch code.
C1_BankPartKept ==
    (Returned /\ op = "regenerate_iban" /\ IBAN(arg).ok)
        => /\ out.status = "ok"
           /\ IBAN(out.value).ok
           /\ out.value = IBAN(out.value).compact
           /\ IbanCountryCode(IBAN(out.value)) = IbanCountryCode(IBAN(arg))
           /\ BankAndBranch(IBAN(out.value)) = BankAndBranch(IBAN(arg))
           /\ generator = Some(IbanCountryCode(IBAN(arg)))

\* C2: for every input the library rejects, the module-level regenerate_iban
\* returns exactly the input, raises nothing, selects no generator and draws nothing.
C2_InvalidIbanUnmodified ==
    (op = "regenerate_iban" /\ pc # "start" /\ ~IBAN(arg).ok)
        => /\ Returned
           /\ out = Outcome("ok", arg)
           /\ generator = None
           /\ draw = <<>>
           /\ retries = 0

\* an IBAN with wrong check digits came back as it was
C2_Witness ==
    /\ Returned /\ op = "regenerate_iban"
    /\ arg = <<"S", "E", "3", "6">> \o StandardBodySE
    /\ out.value = arg
    /\ generator = None

\* the input of the last regenerate_bban is no legacy Swedish form and not 20 long
UnrecognizedSE ==
    /\ op = "regenerate_bban" /\ generator = Some(CC_SE) /\ pc # "start"
    /\ Len(arg) # STANDARD_BBAN_PART_LENGTH_SE
    /\ FirstMatch(bban_to_iban_regex, arg) = 0

\* C3 as stated: for country SE, every input that is not 20 characters long and
\* matches no legacy pattern comes back unchanged from regenerate_bban, without an
\* error.
C3_AsStated == UnrecognizedSE => (Returned /\ out = Outcome("ok", arg))

\* C3, amended: for country SE, every input that is not 20 characters long, matches
\* no legacy pattern and is not accepted by the library as the body of a Swedish
\* IBAN comes back unchanged from regenerate_bban, without an error and without a
\* generation step.
C3_UnrecognizedUnmodified ==
    (UnrecognizedSE /\ ~IBAN(<<"S", "E", "?", "?">> \o arg).ok)
        => (Returned /\ out = Outcome("ok", arg) /\ draw = <<>>)

\* "not-a-bban" came back as it was
C3_Witness ==
    /\ UnrecognizedSE /\ Returned
    /\ arg = NotABban
    /\ out = Outcome("ok", NotABban)

\* the last call was made on an instance whose cache was empty
FromEmptyCache == inst_before = NewInst

\* b is a BBAN in a legacy form of the national-to-IBAN table: the digits of one of
\* its patterns and nothing after them
LegacyFormatBban(b) == AllDigits(b) /\ FirstMatch(bban_to_iban_regex, b) # 0

\* C4: on one Swedish generator instance, for every legacy-format BBAN b (the digits
\* of a pattern of the table) whose bban_to_iban succeeds from an empty cache, the
\* iban_to_bban called next on that instance with the identifier returned gives back
\* exactly b.
C4_RoundTrip ==
    [][ ( /\ op = "bban_to_iban" /\ Returned /\ FromEmptyCache
          /\ LegacyFormatBban(arg)
          /\ out.status = "ok"
          /\ op' = "iban_to_bban" /\ calls' = calls + 1
          /\ arg' = out.value )
        => out' = Outcome("ok", arg) ]_vars

\* the Danske legacy BBAN came back from the IBAN it had been converted to: the
\* instance held the prefixes "120000000" and "1234" when iban_to_bban was called
C4_Witness ==
    /\ Returned /\ op = "iban_to_bban" /\ calls = 2
    /\ inst_before = Inst(Some(N(<<1, 2, 0, 0, 0, 0, 0, 0, 0>>)), Some(N(<<1, 2, 3, 4>>)))
    /\ arg = ValidIban(CC_SE, N(<<1, 2, 0, 0, 0, 0, 0, 0, 0, 5, 6, 7, 8, 9, 0, 1, 2, 3, 4, 5>>))
    /\ out = Outcome("ok", ExampleBbanDanske)

\* C5: on a Swedish generator instance starting with an empty cache, the second of
\* two consecutive iban_to_bban calls with the same identifier returns what the
\* first returned, whether the identifier matches an inverse-table pattern or none.
C5_Idempotent ==
    [][ ( /\ op = "iban_to_bban" /\ Returned /\ FromEmptyCache
          /\ op' = "iban_to_bban" /\ calls' = calls + 1
          /\ arg' = arg )
        => out' = out ]_vars

\* a second iban_to_bban of a Danske-form IBAN answered from the cached prefixes
C5_Witness ==
    /\ Returned /\ op = "iban_to_bban" /\ calls = 2
    /\ arg = ValidIban(CC_SE, N(<<1, 2, 0, 0, 0, 0, 0, 0, 0, 2, 3, 4, 5, 6, 7, 8, 9, 0, 1, 2>>))
    /\ inst_before = Inst(Some(N(<<1, 2, 0, 0, 0, 0, 0, 0, 0>>)), Some(<<"^">> \o N(<<1, 0, 0, 0>>)))
    /\ inst = inst_before
    /\ out = Outcome("ok", <<"^">> \o N(<<1, 0, 0, 0, 2, 3, 4, 5, 6, 7, 8, 9, 0, 1, 2>>))

\* bban_to_iban of "123456789012345" was called on an instance with an empty cache
DanskeExampleConverted ==
    /\ Returned /\ op = "bban_to_iban" /\ FromEmptyCache
    /\ arg = ExampleBbanDanske

\* C6 as stated: from an empty cache, bban_to_iban of the Danske legacy BBAN
\* "123456789012345" yields an identifier whose 20-digit body starts with
\* "1200000000".
C6_AsStated ==
    DanskeExampleConverted
        => /\ out.status = "ok"
           /\ Len(Drop(out.value, 4)) = STANDARD_BBAN_PART_LENGTH_SE
           /\ StartsWith(Drop(out.value, 4), N(<<1, 2, 0, 0, 0, 0, 0, 0, 0, 0>>))

\* C6, amended: from an empty cache, bban_to_iban of the Danske legacy BBAN
\* "123456789012345" yields a valid Swedish IBAN whose 20-digit body is the nine
\* characters "120000000" followed by the eleven account digits "56789012345".
C6_DanskeBody ==
    DanskeExampleConverted
        => /\ out.status = "ok"
           /\ IBAN(out.value).ok
           /\ Take(out.value, 2) = CC_SE
           /\ Drop(out.value, 4) = N(<<1, 2, 0, 0, 0, 0, 0, 0, 0>>)
                                       \o N(<<5, 6, 7, 8, 9, 0, 1, 2, 3, 4, 5>>)

\* the Danske example was converted and its prefixes cached
C6_Witness ==
    /\ DanskeExampleConverted
    /\ out.status = "ok"
    /\ inst = Inst(Some(N(<<1, 2, 0, 0, 0, 0, 0, 0, 0>>)), Some(N(<<1, 2, 3, 4>>)))

\* the account part of the identifier the last call returned, for a country whose
\* BBAN is bank code + account part
OutAccountPart == Drop(OutBban, Len(OutBban) - get_account_code_length(generator[1]))

OutBankCode == Take(OutBban, get_bank_code_length(generator[1]))

\* C7: for Norway, whatever the bank code and the six-digit draws, every account part
\* that generate_account_part returns is the last draw followed by one control
\* character that is a decimal digit 0..9, the mod-11 control digit of bank code +
\* draw: 10 is never emitted and the account part has length 7.  A call that returns
\* no account part is one whose draws were all rejected until the nested calls ended
\* in RecursionError: its last draw has the control value 10, and nothing is emitted.
C7_ControlDigitNO ==
    /\ (Generated /\ generator = Some(CC_NO) /\ out.status = "ok")
          => /\ Len(OutBban) = 11
             /\ Len(OutAccountPart) = 7
             /\ Len(draw) = 6
             /\ AllDigits(OutAccountPart)
             /\ Take(OutAccountPart, 6) = draw
             /\ kid_mod11(OutBankCode \o draw) \in 0..9
             /\ OutAccountPart[7] = CharOfInt(kid_mod11(OutBankCode \o draw))
    /\ (Generated /\ generator = Some(CC_NO) /\ out.status # "ok")
          => /\ out = Outcome("RecursionError", <<>>)
             /\ retries = MaxRetries
             /\ kid_mod11(OldBankAndBranch \o draw) = 10

\* a Norwegian identifier was returned after a draw with control digit 10 had been
\* thrown away
C7_Witness ==
    /\ Generated /\ generator = Some(CC_NO)
    /\ retries >= 1
    /\ out.status = "ok"
    /\ Len(OutAccountPart) = 7

\* the Luhn sum as the spec words it: digits at odd positions from the right as they
\* are, digits at even positions from the right doubled and their digits summed
\* (2 d - 9 when 2 d has two digits); the total modulo 10
LuhnTotalMod10(s) ==
    LET n == Len(s)
        term(i) == LET d == IntOfChar(s[i])
                   IN IF (n - i) % 2 = 0 THEN d
                      ELSE IF 2 * d >= 10 THEN 2 * d - 9 ELSE 2 * d
    IN SumSeq(AsSeq([i \in 1..n |-> term(i)])) % 10

\* C8: for Finland, for every bank code and every 7-digit draw r, the account part
\* generated is the 8 characters r + luhn_checksum(bank code + r), so that the last
\* digit of a regenerated Finnish IBAN is the Luhn sum modulo 10 of the bank code and
\* the first 7 account digits.
C8_ControlDigitFI ==
    (Generated /\ generator = Some(CC_FI))
        => /\ out.status = "ok"
           /\ Len(draw) = 7
           /\ Len(OutAccountPart) = 8
           /\ OutAccountPart = draw \o <<CharOfInt(LuhnTotalMod10(OutBankCode \o draw))>>
           /\ out.value[Len(out.value)]
                  = CharOfInt(LuhnTotalMod10(OutBankCode \o Take(OutAccountPart, 7)))

\* "FI2112345600000785" was regenerated with the draw "1234567": bank code 123456
\* kept, control digit 5
C8_Witness ==
    /\ Generated /\ op = "regenerate_iban" /\ arg = ExampleIbanFI
    /\ out.status = "ok"
    /\ draw = N(<<1, 2, 3, 4, 5, 6, 7>>)
    /\ Drop(out.value, 4) = N(<<1, 2, 3, 4, 5, 6>>) \o draw \o N(<<5>>)

\* the CIN sum taken pair by pair: the first character of a pair (0-indexed even
\* position) counts as its digit, the second (odd position) as its table value
RECURSIVE CinTotal(_)
CinTotal(code) ==
    IF code = <<>> THEN 0
    ELSE IF Len(code) = 1 THEN IntOfChar(code[1])
    ELSE IntOfChar(code[1]) + CIN_ODD_VALUE[IntOfChar(code[2]) + 1] + CinTotal(Drop(code, 2))

\* the bank code + branch code of the old Italian identifier of the last call, or
\* the one generate_iban has drawn
OldBankAndBranchIT ==
    IF op = "generate_random_iban" THEN bank_code
    ELSE IF op = "regenerate_iban" THEN BankAndBranch(IBAN(arg))
    ELSE Slice(arg, 1, 11)

\* C9: for Italy, for every bank+branch code b and generated account part a, the
\* body of the IBAN built is exactly L + b + a, where L = cin(a + b) is one upper-case
\* letter 'A'..'Z': the letter at offset (digit values at even 0-indexed positions +
\* table values at odd positions) mod 26 from 'A'.
C9_CinIT ==
    (Generated /\ generator = Some(CC_IT))
        => /\ out.status = "ok"
           /\ Len(OutBban) = 23
           /\ Len(draw) = 12
           /\ OutBban[1] \in UpperSet
           /\ OutBban[1] = UpperLetters[(CinTotal(draw \o OldBankAndBranchIT) % 26) + 1]
           /\ Drop(OutBban, 1) = OldBankAndBranchIT \o draw

\* an Italian IBAN of bank+branch 1234567890 was regenerated with the account part
\* 123456789012
C9_Witness ==
    /\ Generated /\ generator = Some(CC_IT) /\ op = "regenerate_iban"
    /\ out.status = "ok"
    /\ draw = N(<<1, 2, 3, 4, 5, 6, 7, 8, 9, 0, 1, 2>>)
    /\ Drop(out.value, 5) = N(<<1, 2, 3, 4, 5, 6, 7, 8, 9, 0>>) \o draw
    /\ out.value[5] \in UpperSet

\* the arguments of the last "num" call
NumMin == num_args[1]

NumMax == num_args[2]

NumLength == num_args[3]

\* C10: the "num" generator called with --min m and --max M, 0 <= m <= M, returns a
\* decimal string whose value v satisfies m <= v <= M; when -l L is given as well
\* and m <= 10^L - 1, the string has exactly L characters and v <= min(M, 10^L - 1).
C10_NumRange ==
    ( /\ op = "generate_num" /\ Returned
      /\ NumMin # None /\ NumMax # None
      /\ 0 <= NumMin[1] /\ NumMin[1] <= NumMax[1]
      /\ (NumLength # None => (NumLength[1] >= 0 /\ NumMin[1] <= Pow10(NumLength[1]) - 1)) )
        => /\ out.status = "ok"
           /\ out.value # <<>>
           /\ AllDigits(out.value)
           /\ NumMin[1] <= IntOfStr(out.value)
           /\ IntOfStr(out.value) <= NumMax[1]
           /\ (NumLength # None
                 => /\ Len(out.value) = NumLength[1]
                    /\ IntOfStr(out.value) <= Min(NumMax[1], Pow10(NumLength[1]) - 1))

\* C11: within one Substitutor with policy CACHED the generator is called at most once
\* per distinct original element text, and every element substituted holds the value
\* generated at the one call for its original text; with policy ALWAYS the generator
\* is called for every element.
C11_CachedOnce ==
    sub_pc # "idle"
        => /\ sd.policy = "CACHED"
                => /\ \A i, j \in 1..Len(gen_log) : gen_log[i][1] = gen_log[j][1] => i = j
                   /\ \A i \in 1..idx :
                         (sub_pc = "loop" \/ i < idx)
                             => \E k \in 1..Len(gen_log) :
                                   /\ gen_log[k][1] = orig[i]
                                   /\ gen_log[k][2] = Outcome("ok", texts[i])
           /\ sd.policy = "ALWAYS"
                => /\ Len(gen_log) = idx
                   /\ \A i \in 1..idx : gen_log[i][1] = orig[i]

\* three elements "1", "0", "1" under CACHED: two generator calls, the third element
\* got the value of the first, which differs from its original text
C11_Witness ==
    /\ sub_pc = "loop" /\ sd.policy = "CACHED" /\ idx = 3
    /\ orig = << <<"1">>, <<"0">>, <<"1">> >>
    /\ Len(gen_log) = 2
    /\ texts[3] = texts[1]
    /\ texts[1] = <<"0">>

\* standard Luhn validation of a digit string that ends in its check digit: the check
\* digit as it is, every second digit leftwards from the one next to it doubled (digit
\* sum of the double), the total divisible by 10
LuhnValid(s) == LuhnTotalMod10(s) = 0

\* C12: for Finland, for every 6-digit bank code and every 7-digit draw, the 14-digit
\* string bank code + draw + control digit of the account generated passes standard
\* Luhn validation.
C12_LuhnValidFI ==
    (Generated /\ generator = Some(CC_FI) /\ out.status = "ok")
        => /\ Len(OutBankCode \o OutAccountPart) = 14
           /\ LuhnValid(OutBankCode \o OutAccountPart)

\* the weighted digit sum of a digit string taken from its last digit leftwards:
\* weight 1 on the last digit, weights[1], weights[2], ... on the digits before it, a
\* digit the list does not reach counting nothing
WeightedSumLeftwards(s, weights) ==
    LET n == Len(s)
        weight(j) == IF j = 1 THEN 1 ELSE IF j - 1 <= Len(weights) THEN weights[j - 1] ELSE 0
    IN SumSeq(AsSeq([j \in 1..n |-> IntOfChar(s[n + 1 - j]) * weight(j)]))

\* the nine weights the claim lists
WeightsListed == <<2, 3, 4, 5, 6, 7, 2, 3, 4>>

\* the weights 2..7 cycling over the ten digits before the control digit
WeightsCycling == <<2, 3, 4, 5, 6, 7, 2, 3, 4, 5>>

\* a Norwegian draw was made for the bank code of the call: the call returned, or
\* waits for the retry
DrawnNO ==
    /\ generator = Some(CC_NO)
    /\ op \in {"regenerate_iban", "regenerate_bban", "generate_random_iban"}
    /\ pc \in {"retry", "returned"} /\ draw # <<>>

\* the bank code the Norwegian draw was made for: that of the identifier returned, and
\* where none was returned that of the running or abandoned generation
BankCodeNO ==
    IF pc = "retry" THEN bank_code
    ELSE IF out.status = "ok" THEN OutBankCode
    ELSE OldBankAndBranch

\* C13 as stated: the 11-digit Norwegian account number returned has a weighted digit
\* sum divisible by 11 with weight 1 on the control digit and the weights 2, 3, 4, 5,
\* 6, 7, 2, 3, 4 on the digits before it, going leftwards.
C13_AsStated ==
    (DrawnNO /\ out.status = "ok")
        => WeightedSumLeftwards(OutBban, WeightsListed) % 11 = 0

\* what C13 says of control value c and of the weighted sum of bank code + draw
Mod11Facts(c, sum) ==
    /\ c \in 0..10
    /\ c = (IF 11 - (sum % 11) = 11 THEN 0 ELSE 11 - (sum % 11))
    /\ (out.status \in {"retry", "RecursionError"}) = (c = 10)
    /\ out.status = "ok"
          => /\ c # 10
             /\ Len(OutBban) = 11
             /\ OutBban = BankCodeNO \o draw \o <<CharOfInt(c)>>
             /\ WeightedSumLeftwards(OutBban, WeightsCycling) % 11 = 0

\* C13: for Norway, for every 4-digit bank code and 6-digit draw, kid_mod11(bank +
\* draw) is 11 - (sum mod 11) with 11 mapped to 0, a value in 0..10, the sum weighting
\* the digits 2, 3, 4, 5, 6, 7 cycling from the last one leftwards; and when that value
\* c is not 10, the 11-digit string bank + draw + c has a weighted digit sum divisible
\* by 11 with weight 1 on the control digit and 2, 3, 4, 5, 6, 7, 2, 3, 4, 5 leftwards.
\* A draw with the value 10 is not emitted: the generator calls itself again, or ends
\* in RecursionError when it cannot.
C13_Mod11ValidNO ==
    DrawnNO
        => /\ Len(BankCodeNO) = 4 /\ Len(draw) = 6
           /\ out.status \in {"ok", "retry", "RecursionError"}
           /\ Mod11Facts(kid_mod11(BankCodeNO \o draw),
                         WeightedSumLeftwards(BankCodeNO \o draw \o <<"0">>, WeightsCycling))

\* a Norwegian account number whose bank code begins with a digit other than 0 was
\* returned: the tenth weight counts
C13_Witness ==
    /\ DrawnNO /\ out.status = "ok"
    /\ BankCodeNO[1] # "0"
    /\ kid_mod11(BankCodeNO \o draw) \in 1..9
    /\ OutBban[11] = CharOfInt(kid_mod11(BankCodeNO \o draw))

\* in the state: a draw with a control digit other than 10 exists for the bank code
\* that is retried, and no call of the Norwegian generator that went through a retry
\* ends with the value 10 in its result or with an error
RetryStateNO ==
    /\ DrawnNO => \E d \in Draws(6) : kid_mod11(BankCodeNO \o d) # 10
    /\ pc = "retry"
          => /\ generator = Some(CC_NO)
             /\ Len(bank_code) = 4
             /\ kid_mod11(bank_code \o draw) = 10
             /\ \E d \in Draws(6) : kid_mod11(bank_code \o d) # 10
    /\ (Returned /\ retries >= 1)
          => /\ generator = Some(CC_NO)
             /\ out.status = "ok"
             /\ Len(OutBban) = 11
             /\ AllDigits(OutBban)
             /\ kid_mod11(OutBankCode \o draw) # 10
             /\ Drop(OutBban, 4) = draw \o <<CharOfInt(kid_mod11(OutBankCode \o draw))>>

\* in the step made from a retry: a six-digit draw for the same bank code, inside the
\* same call
RetryStepNO ==
    pc = "retry"
        => /\ Len(draw') = 6
           /\ AllDigits(draw')
           /\ retries' >= 1
           /\ <<calls, op, arg, generator>>' = <<calls, op, arg, generator>>
           /\ pc' = "retry" => bank_code' = bank_code
           /\ pc' = "returned" => OutBankCode' = bank_code

\* C14: Norway's retry terminates. For the bank code of every retry there is a
\* six-digit draw whose control digit is not 10; each retry makes a six-digit draw for
\* the same bank code; under fair draws the call returns at last, with an identifier;
\* the control value 10 is never in the result and never ends the call with an error.
\* (The RecursionError in which a run of rejected draws ends is such an error.)
C14_RetryTerminates ==
    /\ []RetryStateNO
    /\ [][RetryStepNO]_vars
    /\ (pc = "retry") ~> (Returned /\ out.status = "ok" /\ retries >= 1)

\* a legacy BBAN, one that matches a pattern of the national-to-IBAN table, was
\* converted by bban_to_iban on an instance with nothing cached
LegacyConverted ==
    /\ Returned /\ op = "bban_to_iban" /\ generator = Some(CC_SE) /\ FromEmptyCache
    /\ Len(arg) # STANDARD_BBAN_PART_LENGTH_SE
    /\ FirstMatch(bban_to_iban_regex, arg) # 0

\* C15: for every Swedish legacy BBAN that matches a pattern of the national-to-IBAN
\* table, the expanded template the BBAN-to-IBAN-part conversion returns is a string
\* of exactly 20 decimal digits, the body of the identifier bban_to_iban builds.
C15_TemplateTwentyDigits ==
    LegacyConverted
        => /\ Len(bban_to_iban_part(inst_before, arg).value) = STANDARD_BBAN_PART_LENGTH_SE
           /\ AllDigits(bban_to_iban_part(inst_before, arg).value)
           /\ out.status = "ok"
           /\ Drop(out.value, 4) = bban_to_iban_part(inst_before, arg).value

\* regenerate_iban was called on the Swedish generator instance and has ended
RegeneratedIbanSE == Returned /\ op = "regenerate_iban" /\ generator = Some(CC_SE)

\* C16: Swedish regenerate_iban, after its discovery call to iban_to_bban: if an
\* IBAN-side prefix p is cached, the body of the new IBAN is p followed by exactly
\* 20 - len(p) fresh random digits, 20 characters in all; if none is cached, the result
\* is the base generator's regeneration, the old bank code followed by a freshly drawn
\* account part of the registry's account length.
C16_RegenerateIbanSE ==
    RegeneratedIbanSE
        => /\ out.status = "ok"
           /\ AllDigits(draw)
           /\ Len(Drop(out.value, 4)) = STANDARD_BBAN_PART_LENGTH_SE
           /\ inst = iban_to_bban_SE(inst_before, IbanOf(arg)).inst
           /\ IF Truthy(inst.special_bankcode_iban)
              THEN /\ Len(draw) = STANDARD_BBAN_PART_LENGTH_SE - Len(inst.special_bankcode_iban[1])
                   /\ Drop(out.value, 4) = inst.special_bankcode_iban[1] \o draw
              ELSE /\ Len(draw) = get_account_code_length(CC_SE)
                   /\ Drop(out.value, 4) = BankAndBranch(IbanOf(arg)) \o draw

\* an instance that had cached the Danske prefixes regenerated an IBAN of another
\* form: the new body is the cached prefix and eleven drawn digits
C16_Witness ==
    /\ RegeneratedIbanSE /\ calls = 2
    /\ inst_before = Inst(Some(N(<<1, 2, 0, 0, 0, 0, 0, 0, 0>>)), Some(N(<<1, 2, 3, 4>>)))
    /\ ~StartsWith(Drop(arg, 4), N(<<1, 2>>))
    /\ out.status = "ok"
    /\ Len(draw) = 11
    /\ Drop(out.value, 4) = N(<<1, 2, 0, 0, 0, 0, 0, 0, 0>>) \o draw

\* both prefixes of the instance are set: the discovery branch has assigned them
MappingDiscovered == inst.special_bankcode_bban # None /\ inst.special_bankcode_iban # None

\* the identifier bban_to_iban builds from the cached prefixes of i for the input bban
FromCachedPrefixes(i, bban) ==
    OutcomeOfIban(bban_to_iban_base(CC_SE, i.special_bankcode_iban[1]
                                            \o Drop(bban, Len(i.special_bankcode_bban[1]))),
                  "ValueError")

\* C17: once a Swedish generator instance has discovered a mapping (both the
\* national-side and the IBAN-side prefix are set), no later bban_to_iban,
\* iban_to_bban, regenerate_iban or regenerate_bban call on it changes either prefix,
\* and every later bban_to_iban builds its identifier from cachedIbanPrefix +
\* bban[len(cachedBbanPrefix):], whatever bank the later input belongs to.
C17_MappingKept ==
    [][ MappingDiscovered
          => /\ inst' = inst
             /\ op' = "bban_to_iban" => out' = FromCachedPrefixes(inst, arg') ]_vars

\* what C18 says of a call of regenerate_bban that has ended, c being the outcome of
\* converting its old BBAN.  A converted old BBAN is followed by a draw, but for a
\* country code the registry of the library does not hold: there the KeyError of the
\* lookup reaches the caller before anything is drawn or assembled
RegenerateBbanOutcome(c) ==
    /\ c.status \in {"ok", "ValueError"}
    /\ c.status = "ValueError" => (draw = <<>> /\ out = Outcome("ok", arg))
    /\ (c.status = "ok" /\ draw = <<>>)
          => (out.status = "KeyError" /\ generator[1] \notin RegistryCountries)
    /\ (c.status = "ok" /\ draw # <<>>) => out.status \in {"ok", "Exception", "RecursionError"}
    /\ out.status = "RecursionError" => generator = Some(CC_NO)
    /\ (c.status = "ok" /\ out.status = "ok" /\ generator[1] # CC_SE)
          => bban_to_iban_base(generator[1], out.value).ok

\* C18: a freshly assembled identifier that fails structural validation is never
\* returned. A regeneration that made its draw and assembled an identifier ends either
\* with an identifier the library accepts or with the error of generate_iban_for_bank,
\* the Exception raised for an assembled string the library rejects; in regenerate_bban
\* that error comes after the old BBAN was converted and reaches the caller, and the
\* old BBAN comes back unmodified only when its conversion to an identifier fails.  The
\* one other end of a regeneration, the RecursionError of the Norwegian generator,
\* comes before anything is assembled: the last draw has the control value 10.
C18_InvalidNeverReturned ==
    /\ (Generated /\ op # "regenerate_bban" /\ out.status = "ok")
          => (IBAN(out.value).ok /\ IBAN(out.value).compact = out.value)
    /\ (Generated /\ out.status # "ok")
          => \/ /\ out.status = "Exception"
                /\ GeneratorClass(generator[1]) = "BankNrGenerator"
                /\ ~IBAN(generator[1] \o <<"?", "?">> \o OldBankAndBranch \o draw).ok
             \/ /\ out.status = "RecursionError"
                /\ generator = Some(CC_NO)
                /\ kid_mod11(OldBankAndBranch \o draw) = 10
    /\ RegeneratedBban => RegenerateBbanOutcome(OldBbanConverted)

\* regenerate_bban for San Marino: the old BBAN was converted, the identifier
\* assembled from its bank code and twelve drawn digits was rejected, and the call
\* ended with the Exception of generate_iban_for_bank
C18_Witness ==
    /\ RegeneratedBban /\ generator = Some(CC_SM)
    /\ OldBbanConverted.status = "ok"
    /\ Len(draw) = 12
    /\ out.status = "Exception"

\* C19: for country SE, whenever regenerate_bban(b) does not take the unmodified
\* fallback (b converts to a valid identifier, 20-digit IBAN-internal inputs
\* included), the BBAN returned consists of decimal digits only and is as long as b,
\* whatever the draw.
C19_SameShapeSE ==
    (RegeneratedBban /\ generator = Some(CC_SE) /\ OldBbanConverted.status = "ok")
        => /\ out.status = "ok"
           /\ AllDigits(out.value)
           /\ Len(out.value) = Len(arg)

\* C20: in every reachable state of a Swedish generator instance, after any sequence
\* of bban_to_iban, iban_to_bban, regenerate_iban and regenerate_bban calls, the two
\* cached prefixes are either both unset or both non-empty strings, so that
\* regenerate_iban never uses an IBAN-side prefix the conversions treat as not
\* discovered.
C20_PrefixesPaired ==
    generator = Some(CC_SE)
        => \/ inst = NewInst
           \/ Truthy(inst.special_bankcode_bban) /\ Truthy(inst.special_bankcode_iban)

====
